---- MODULE Spec2Model ----
(***************************************************************************)
(* Model of src/nav_analyzer.py: the navigation data analyzer.             *)
(*                                                                         *)
(* main() loads the file, runs analyze_movement_patterns (the movement     *)
(* loop, then find_position_clusters), prints the report, exports the      *)
(* heatmap data with --export-heatmap and, with --watch, reloads and       *)
(* re-analyzes the file every time it changes.                             *)
(*                                                                         *)
(* Numbers.  A JSON number loads as a Python int or a Python float, and    *)
(* the code leaves the type open; such a number is [int |-> n] or          *)
(* [float |-> x], and an operation on two of them does what Python does:   *)
(* ints are exact and of any size, an int that meets a float is converted  *)
(* first, and the result of anything with a float in it is a float.  A     *)
(* float is an IEEE 754 double, <<sign, mantissa, exponent>> with an odd   *)
(* mantissa of at most 53 bits kept in limbs of 14 bits, and +, -, *, /    *)
(* and math.sqrt return the double nearest to the exact result, ties to    *)
(* the even mantissa.  sum() starts from the int 0 and adds from left to   *)
(* right, rounding each addition of floats (CPython 3.11).  x ** 2 on a    *)
(* float x is the C library's pow(x, 2.0), which is not always the double  *)
(* nearest to x * x: it is computed here as glibc 2.36 for x86-64 with FMA *)
(* computes it.  Values that are floats whatever the input (distances,     *)
(* time_spent) are kept as bare doubles.                                   *)
(*                                                                         *)
(* Files.  The file holds a JSON object: a session as the game writes it   *)
(* (with the header print_analysis_report reads: session_start and the     *)
(* statistics), the empty object, or what export_heatmap_data wrote over   *)
(* it when --file names heatmap_data.json.  An exception nothing catches   *)
(* (the KeyError or TypeError a file of the last two kinds leads to, or    *)
(* Ctrl+C outside the try of the watch loop) ends main with a traceback.   *)
(* export_heatmap_data does not write its file at once: line 170 empties   *)
(* it and line 171 writes it piece by piece, so a Ctrl+C in between leaves *)
(* it empty or with the beginning of the text only; neither loads.         *)
(* When main ends, by a return or by such an exception, its variables and  *)
(* those of the functions it called no longer exist: they are reset; what  *)
(* was printed and the file stay.                                          *)
(*                                                                         *)
(* Not modelled: the text print_analysis_report writes (only the branch    *)
(* it takes is kept, in `printed`), and the polls of the watch loop that   *)
(* find the mtime unchanged or the file missing, which change no state.    *)
(*                                                                         *)
(* References.  cluster["positions"] holds references to the position      *)
(* lists of the input (lines 84 and 98 store `pos` itself, not a copy, and *)
(* only the center is copied); a reference is the index of the sample in   *)
(* the input sequence and is dereferenced with PosOf.                      *)
(***************************************************************************)
EXTENDS Integers, Sequences, FiniteSets, TLC

VARIABLES
    file,                       \* content of the file args.file on disk
    args,                       \* main: args (file, export_heatmap, watch)
    nav_data,                   \* main: nav_data (None or the loaded dict)
    pc,                         \* control position of main
    watching,                   \* main is inside the try of lines 196-211
    i,                          \* analyze_movement_patterns: i, 1-based
    total_distance,             \* analyze_movement_patterns local
    max_distance_per_interval,  \* analyze_movement_patterns local
    speeds,                     \* analyze_movement_patterns local
    k,                          \* find_position_clusters: the next sample
    clusters,                   \* find_position_clusters local
    analysis,                   \* main: analysis (None or the returned dict)
    printed,                    \* which branch print_analysis_report took last
    last_run                    \* history: the previous analysis, in and out

vars == <<file, args, nav_data, pc, watching, i, total_distance,
          max_distance_per_interval, speeds, k, clusters, analysis, printed,
          last_run>>

\* Python's None, as a record so that it compares with the dicts
None == [none |-> TRUE]

\* the only element of a set of one element; The({ G(x) : x \in {h} }) is
\* G(h) with h evaluated once
The(S) == CHOOSE x \in S : TRUE

-----------------------------------------------------------------------------
(* Bounds of the model and constants of the program *)

MaxLen == 3
MaxSites == 11
MaxExtra == 2

cluster_radius == 5
dwell_increment == 5
top_k == 10

\* the double format, and the limbs the model computes it with
Precision == 53
LimbBits == 14
Base == 16384

-----------------------------------------------------------------------------
(* Python's float: IEEE 754 binary64, round to nearest, ties to even *)

\* naturals of any size: limbs in base 2^14, least significant first, no
\* leading zero limb (zero is the empty sequence)
RECURSIVE Pow2(_)
Pow2(n) == IF n = 0 THEN 1 ELSE 2 * Pow2(n - 1)

RECURSIVE BN(_)
BN(n) == IF n = 0 THEN <<>> ELSE <<n % Base>> \o BN(n \div Base)

\* the value of a natural that fits an Int
RECURSIVE BInt(_)
BInt(a) == IF a = <<>> THEN 0 ELSE a[1] + Base * BInt(SubSeq(a, 2, Len(a)))

RECURSIVE BTrim(_)
BTrim(a) ==
    IF a = <<>> THEN a
    ELSE IF a[Len(a)] = 0 THEN BTrim(SubSeq(a, 1, Len(a) - 1)) ELSE a

Limb(a, j) == IF j <= Len(a) THEN a[j] ELSE 0

RECURSIVE BCmpFrom(_, _, _)
BCmpFrom(a, b, j) ==
    IF j = 0 THEN 0
    ELSE IF a[j] < b[j] THEN -1
    ELSE IF a[j] > b[j] THEN 1
    ELSE BCmpFrom(a, b, j - 1)

\* -1, 0 or 1 as a < b, a = b, a > b
BCmp(a, b) ==
    IF Len(a) < Len(b) THEN -1
    ELSE IF Len(a) > Len(b) THEN 1
    ELSE BCmpFrom(a, b, Len(a))

RECURSIVE BAddFrom(_, _, _, _)
BAddFrom(a, b, j, carry) ==
    IF j > Len(a) /\ j > Len(b)
    THEN IF carry = 0 THEN <<>> ELSE <<carry>>
    ELSE LET t == Limb(a, j) + Limb(b, j) + carry
         IN  <<t % Base>> \o BAddFrom(a, b, j + 1, t \div Base)

BAdd(a, b) == BAddFrom(a, b, 1, 0)

RECURSIVE BSubFrom(_, _, _, _)
BSubFrom(a, b, j, borrow) ==
    IF j > Len(a) THEN <<>>
    ELSE LET t == a[j] - Limb(b, j) - borrow
         IN  IF t < 0 THEN <<t + Base>> \o BSubFrom(a, b, j + 1, 1)
             ELSE <<t>> \o BSubFrom(a, b, j + 1, 0)

\* a - b, for a >= b
BSub(a, b) == BTrim(BSubFrom(a, b, 1, 0))

RECURSIVE BMulSmallFrom(_, _, _, _)
BMulSmallFrom(a, d, j, carry) ==
    IF j > Len(a) THEN IF carry = 0 THEN <<>> ELSE <<carry>>
    ELSE LET t == a[j] * d + carry
         IN  <<t % Base>> \o BMulSmallFrom(a, d, j + 1, t \div Base)

\* a * d, for 0 <= d <= Base
BMulSmall(a, d) == IF d = 0 THEN <<>> ELSE BMulSmallFrom(a, d, 1, 0)

Zeros(n) == [j \in 1..n |-> 0]

RECURSIVE BMulFrom(_, _, _)
BMulFrom(a, b, j) ==
    IF j > Len(b) THEN <<>>
    ELSE BAdd(IF b[j] = 0 THEN <<>> ELSE Zeros(j - 1) \o BMulSmall(a, b[j]),
              BMulFrom(a, b, j + 1))

BMul(a, b) == IF a = <<>> \/ b = <<>> THEN <<>> ELSE BMulFrom(a, b, 1)

\* a * 2^n
BShl(a, n) ==
    IF a = <<>> THEN a
    ELSE Zeros(n \div LimbBits) \o BMulSmall(a, Pow2(n % LimbBits))

\* <<quotient, remainder>> of a by d, for 0 < d <= Base: the limbs j, j - 1,
\* ... of a after the remainder rem of the limbs above them, which gave the
\* limbs quot of the quotient
RECURSIVE BDivSmallFrom(_, _, _, _, _)
BDivSmallFrom(a, d, j, rem, quot) ==
    IF j = 0 THEN <<BTrim(quot), rem>>
    ELSE BDivSmallFrom(a, d, j - 1, (rem * Base + a[j]) % d,
                       <<(rem * Base + a[j]) \div d>> \o quot)

BDivSmall(a, d) == BDivSmallFrom(a, d, Len(a), 0, <<>>)

\* floor(a / 2^n)
BShr(a, n) ==
    IF n \div LimbBits >= Len(a) THEN <<>>
    ELSE BDivSmall(SubSeq(a, n \div LimbBits + 1, Len(a)),
                   Pow2(n % LimbBits))[1]

RECURSIVE IntBitLen(_)
IntBitLen(n) == IF n = 0 THEN 0 ELSE 1 + IntBitLen(n \div 2)

BitLen(a) ==
    IF a = <<>> THEN 0
    ELSE (Len(a) - 1) * LimbBits + IntBitLen(a[Len(a)])

RECURSIVE IntTrailingZeros(_)
IntTrailingZeros(n) == IF n % 2 = 1 THEN 0 ELSE 1 + IntTrailingZeros(n \div 2)

RECURSIVE TrailingZerosFrom(_, _)
TrailingZerosFrom(a, j) ==
    IF a[j] = 0 THEN LimbBits + TrailingZerosFrom(a, j + 1)
    ELSE IntTrailingZeros(a[j])

\* number of zero bits below the lowest set bit of a # 0
TrailingZeros(a) == TrailingZerosFrom(a, 1)

\* one limb of a long division by d, bit by bit from bit n of the limb down:
\* <<quotient limb, remainder>>, for a remainder r < d so far; r2 is r with
\* bit n of the limb brought down
RECURSIVE BDivLimb(_, _, _, _, _)
RECURSIVE BDivBit(_, _, _, _, _)
BDivBit(limb, d, n, q, r2) ==
    IF BCmp(r2, d) >= 0
    THEN BDivLimb(limb, d, n - 1, 2 * q + 1, BSub(r2, d))
    ELSE BDivLimb(limb, d, n - 1, 2 * q, r2)

BDivLimb(limb, d, n, q, r) ==
    IF n < 0 THEN <<q, r>>
    ELSE The({ BDivBit(limb, d, n, q, r2) :
                 r2 \in { BAdd(BShl(r, 1), BN((limb \div Pow2(n)) % 2)) } })

\* the limb here in front of the quotient of the limbs above, and the
\* remainder left
BDivJoin(above, here) == <<<<here[1]>> \o above[1], here[2]>>

\* <<quotient, remainder>> of the limbs j.. of a by d # 0, given those of the
\* limbs above j
RECURSIVE BDivModFrom(_, _, _)
BDivModAt(a, d, j, above) ==
    BDivJoin(above, BDivLimb(a[j], d, LimbBits - 1, 0, above[2]))

BDivModFrom(a, d, j) ==
    IF j > Len(a) THEN <<<<>>, <<>>>>
    ELSE The({ BDivModAt(a, d, j, above) :
                 above \in { BDivModFrom(a, d, j + 1) } })

BDivTrim(r) == <<BTrim(r[1]), r[2]>>

BDivRem(r) == <<r[1], BN(r[2])>>

BDivMod(a, d) ==
    IF Len(d) = 1 THEN BDivRem(BDivSmall(a, d[1]))
    ELSE BDivTrim(BDivModFrom(a, d, 1))

\* floor(sqrt(n)) for 0 <= n < Base * Base, bit by bit from bit n of the root
RECURSIVE IntSqrtFrom(_, _, _)
IntSqrtFrom(n, r, bit) ==
    IF bit < 0 THEN r
    ELSE LET t == r + Pow2(bit)
         IN  IF t * t <= n THEN IntSqrtFrom(n, t, bit - 1)
             ELSE IntSqrtFrom(n, r, bit - 1)

\* (2 * p * Base + d) * d, given p2 = 2 * p # 0
RootTrial(p2, d) == BMulSmall(<<d>> \o p2, d)

\* the largest digit, from d down, that the remainder r leaves room for
RECURSIVE RootDigitFrom(_, _, _)
RootDigitFrom(p2, r, d) ==
    IF d = 0 \/ BCmp(RootTrial(p2, d), r) <= 0 THEN d
    ELSE RootDigitFrom(p2, r, d - 1)

\* the quotient of the top limbs of half by the top limb of p, Base - 1 at most
RootGuess(p, half) ==
    IF (Limb(half, Len(p) + 2) * Base + Limb(half, Len(p) + 1)) \div p[Len(p)]
          < Base
    THEN (Limb(half, Len(p) + 2) * Base + Limb(half, Len(p) + 1)) \div p[Len(p)]
    ELSE Base - 1

\* the next limb of the root p # 0, for the remainder r: the quotient of the
\* top limbs of r / 2 by the top limb of p is that limb or a little more
RootDigit(p, r) == RootDigitFrom(BMulSmall(p, 2), r, RootGuess(p, BShr(r, 1)))

\* the root p with the limb d in front of it, and what is left of r
RootPut(p, r, d) ==
    <<BTrim(<<d>> \o p),
      BSub(r, IF p = <<>> THEN BN(d * d) ELSE RootTrial(BMulSmall(p, 2), d))>>

\* the limb of the root that the pair of limbs j of a gives, after the root
\* p of the pairs above it, r being what is left of them with that pair
RootNext(a, j, p, r) ==
    RootPut(p, r,
            IF p = <<>>
            THEN IntSqrtFrom(Limb(a, 2 * j) * Base + a[2 * j - 1], 0,
                             LimbBits - 1)
            ELSE RootDigit(p, r))

RootStep(a, j, above) ==
    RootNext(a, j, above[1],
             BTrim(<<a[2 * j - 1], Limb(a, 2 * j)>> \o above[2]))

\* <<root, remainder>> of the pairs of limbs j, j + 1, ... of a, the long-hand
\* square root with one limb of the root for each pair of limbs of a
RECURSIVE BSqrtFrom(_, _)
BSqrtFrom(a, j) ==
    IF 2 * j - 1 > Len(a) THEN <<<<>>, <<>>>>
    ELSE RootStep(a, j, BSqrtFrom(a, j + 1))

\* <<floor(sqrt(a)), a - floor(sqrt(a))^2>>, for a whose top pair of limbs
\* has one of its two top bits set
BSqrt(a) == BSqrtFrom(a, 1)

\* a double: <<sign, mantissa, exponent>> standing for sign * mantissa *
\* 2^exponent, with sign in {-1, 1} and an odd mantissa of at most 53 bits,
\* or <<0, <<>>, 0>> for zero.  Exponents stay far from the limits of the
\* format in the runs modelled here: no overflow, no subnormal.
FZero == <<0, <<>>, 0>>

\* sign * m * 2^e with the tz zero bits at the low end of m taken off
OddBy(sign, m, e, tz) ==
    IF tz = 0 THEN <<sign, m, e>> ELSE <<sign, BShr(m, tz), e + tz>>

\* m without the zero bits at its low end, and how many they were
Odd(sign, m, e) == OddBy(sign, m, e, TrailingZeros(m))

\* q = floor(m / 2^cut) or q + 1, whichever is nearer to m / 2^cut, the even
\* one of a tie: half compares what is cut off with half of 2^cut
NearestOf(q, half) ==
    IF half > 0 \/ (half = 0 /\ q[1] % 2 = 1) THEN BAdd(q, <<1>>) ELSE q

Nearest(m, cut, q) ==
    NearestOf(q, BCmp(BShl(BSub(m, BShl(q, cut)), 1), BShl(<<1>>, cut)))

\* the double nearest to sign * m * 2^e for an m of more than 53 bits, cut
\* being the number of bits too many
RoundCut(sign, m, e, cut) == Odd(sign, Nearest(m, cut, BShr(m, cut)), e + cut)

\* the double nearest to sign * m * 2^e, ties to the even mantissa
Round(sign, m, e) ==
    IF m = <<>> \/ sign = 0 THEN FZero
    ELSE IF BitLen(m) <= Precision THEN Odd(sign, m, e)
    ELSE RoundCut(sign, m, e, BitLen(m) - Precision)

\* the double of a Python int (small enough to be exact)
F(n) == IF n = 0 THEN FZero
        ELSE Round(IF n < 0 THEN -1 ELSE 1, BN(IF n < 0 THEN -n ELSE n), 0)

FNeg(x) == <<-x[1], x[2], x[3]>>

\* position of the top bit of |x|
Top(x) == x[3] + BitLen(x[2])

\* the smaller of two exponents
Low(ex, ey) == IF ex < ey THEN ex ELSE ey

\* -1, 0, 1 as |x| < |y|, |x| = |y|, |x| > |y|, for x, y # 0
MagCmp(x, y) ==
    IF Top(x) < Top(y) THEN -1
    ELSE IF Top(x) > Top(y) THEN 1
    ELSE BCmp(BShl(x[2], x[3] - Low(x[3], y[3])),
              BShl(y[2], y[3] - Low(x[3], y[3])))

FCmp(x, y) ==
    IF x[1] # y[1] THEN (IF x[1] < y[1] THEN -1 ELSE 1)
    ELSE IF x[1] = 0 THEN 0
    ELSE x[1] * MagCmp(x, y)

FLess(x, y) == FCmp(x, y) < 0
FLeq(x, y) == FCmp(x, y) <= 0

\* the double nearest to sx * ax * 2^e + sy * ay * 2^e, c comparing ax to ay
RoundAligned(sx, ax, sy, ay, e, c) ==
    Round(IF sx = sy \/ c > 0 THEN sx ELSE IF c < 0 THEN sy ELSE 0,
          IF sx = sy THEN BAdd(ax, ay)
          ELSE IF c > 0 THEN BSub(ax, ay)
          ELSE IF c < 0 THEN BSub(ay, ax)
          ELSE <<>>,
          e)

\* the double nearest to sx * mx * 2^ex + sy * my * 2^ey, for mx, my # 0 of
\* any length
RoundSum(sx, mx, ex, sy, my, ey) ==
    RoundAligned(sx, BShl(mx, ex - Low(ex, ey)), sy, BShl(my, ey - Low(ex, ey)),
                 Low(ex, ey),
                 BCmp(BShl(mx, ex - Low(ex, ey)), BShl(my, ey - Low(ex, ey))))

\* x + y
FAdd(x, y) ==
    IF x[1] = 0 THEN y
    ELSE IF y[1] = 0 THEN x
    ELSE IF Top(x) - Top(y) > 2 * Precision THEN x
    ELSE IF Top(y) - Top(x) > 2 * Precision THEN y
    ELSE RoundSum(x[1], x[2], x[3], y[1], y[2], y[3])

\* x - y
FSub(x, y) == FAdd(x, FNeg(y))

\* x * y
FMul(x, y) == Round(x[1] * y[1], BMul(x[2], y[2]), x[3] + y[3])

\* the double nearest to sign * m * 2^e for m = 2 * floor(v) + (1 if v is
\* not an integer), where qr is <<floor(v), whether anything is left>>
RoundInexact(sign, qr, e) ==
    Round(sign, BAdd(BShl(qr[1], 1), IF qr[2] = <<>> THEN <<>> ELSE <<1>>), e)

\* x / y for x, y # 0, with the mantissa of x shifted up by sh bits
FDivBy(x, y, sh) ==
    RoundInexact(x[1] * y[1], BDivMod(BShl(x[2], sh), y[2]),
                 x[3] - y[3] - sh - 1)

\* x / y, y # 0: the quotient of the mantissas to 56 bits or more, and one
\* more bit that says whether anything is left
FDiv(x, y) ==
    IF x[1] = 0 THEN FZero
    ELSE FDivBy(x, y,
                IF Precision + 3 + BitLen(y[2]) - BitLen(x[2]) > 0
                THEN Precision + 3 + BitLen(y[2]) - BitLen(x[2]) ELSE 0)

\* sqrt(x) for x > 0, with the mantissa of x shifted up by sh bits
FSqrtBy(x, sh) ==
    RoundInexact(1, BSqrt(BShl(x[2], sh)), (x[3] - sh) \div 2 - 1)

\* math.sqrt(x), x >= 0: the root of the mantissa, shifted to 8 limbs less
\* a bit if the exponent needs it, which has 56 bits, and one more bit that
\* says whether anything is left
FSqrt(x) ==
    IF x[1] = 0 THEN FZero
    ELSE FSqrtBy(x, IF (x[3] - (8 * LimbBits - BitLen(x[2]))) % 2 = 0
                    THEN 8 * LimbBits - BitLen(x[2])
                    ELSE 8 * LimbBits - BitLen(x[2]) - 1)

FMax(x, y) == IF FLess(x, y) THEN y ELSE x

\* the sign, mantissa and exponent of the exact product x * y
Product(x, y) == <<x[1] * y[1], BMul(x[2], y[2]), x[3] + y[3]>>

\* the top bit of sign * m * 2^e
TopOf(p) == p[3] + BitLen(p[2])

\* p + z with one rounding, for an exact product p and a double z, both # 0.
\* A term too small to reach the bits the rounding looks at stands in as one
\* bit far below them.
ProductPlus(p, z) ==
    IF TopOf(p) - Top(z) > 3 * Precision
    THEN RoundSum(p[1], p[2], p[3], z[1], <<1>>, TopOf(p) - 3 * Precision)
    ELSE IF Top(z) - TopOf(p) > 3 * Precision
    THEN RoundSum(p[1], <<1>>, Top(z) - 3 * Precision, z[1], z[2], z[3])
    ELSE RoundSum(p[1], p[2], p[3], z[1], z[2], z[3])

\* fma(x, y, z): x * y + z with one rounding
Fma(x, y, z) ==
    IF x[1] = 0 \/ y[1] = 0 THEN z
    ELSE IF z[1] = 0 THEN FMul(x, y)
    ELSE ProductPlus(Product(x, y), z)

\* int(x), for a double x that is a small integer
FInt(x) == IF x[1] = 0 THEN 0 ELSE x[1] * BInt(x[2]) * Pow2(x[3])

-----------------------------------------------------------------------------
(* x ** 2 on a float: float_pow calls the C library's pow(x, 2.0), here     *)
(* glibc 2.36 for x86-64 with FMA: log(x) as a double and a tail (log_inline *)
(* of e_pow.c), times y, then exp of the two (exp_inline).  The result is    *)
(* within 0.52 ulp of x * x, not always the nearest double.                  *)

\* the constants of log_inline (ln 2 in two parts, the polynomial A) and of
\* exp_inline (N / ln 2, the shift, -ln 2 / N in two parts, the polynomial C)
PowConstants ==
    [Ln2hi     |-> <<1, <<8007, 8575, 11356>>, -42>>,
     Ln2lo     |-> <<1, <<13939, 9457, 13143, 123>>, -93>>,
     A0        |-> <<-1, <<1>>, -1>>,
     A1        |-> <<-1, <<10923, 10922, 10922, 42>>, -48>>,
     A2        |-> <<1, <<3, 0, 0, 512>>, -52>>,
     A3        |-> <<1, <<10919, 12978, 3276, 819>>, -52>>,
     A4        |-> <<-1, <<4669, 10835, 10922, 682>>, -52>>,
     A5        |-> <<-1, <<1513, 11553, 5561, 1170>>, -52>>,
     A6        |-> <<1, <<16323, 11416, 696, 1024>>, -52>>,
     InvLn2N   |-> <<1, <<383, 2647, 10811, 738>>, -44>>,
     Shift     |-> <<1, <<3>>, 51>>,
     NegLn2hiN |-> <<-1, <<16253, 7301, 177>>, -43>>,
     NegLn2loN |-> <<-1, <<7581, 14652, 15573, 926>>, -98>>,
     C2        |-> <<1, <<15805, 16383, 16383, 2047>>, -54>>,
     C3        |-> <<1, <<5391, 5461, 5461, 341>>, -53>>,
     C4        |-> <<1, <<11153, 15452, 5468, 1365>>, -57>>,
     C5        |-> <<1, <<4119, 7827, 4374, 1092>>, -59>>]

\* row n of the table of log_inline, for the subinterval n of [OFF, 2 * OFF)
\* and a c near its middle: 1/c, log(c) and the tail of log(c)
LogTab(n) ==
    CASE n = 0 -> <<<<1, <<181>>, -7>>, <<-1, <<5945, 377, 11353>>, -43>>, <<1, <<11949, 8513, 5764, 13>>, -93>>>>
      [] n = 1 -> <<<<1, <<45>>, -5>>, <<-1, <<11009, 7903, 11171>>, -43>>, <<-1, <<1977, 6940, 4740, 57>>, -93>>>>
      [] n = 2 -> <<<<1, <<179>>, -7>>, <<-1, <<10411, 15243, 10988>>, -43>>, <<-1, <<4205, 5849, 10829, 1240>>, -97>>>>
      [] n = 3 -> <<<<1, <<89>>, -6>>, <<-1, <<9663, 5827, 10805>>, -43>>, <<-1, <<10197, 15041, 3657, 1441>>, -101>>>>
      [] n = 4 -> <<<<1, <<177>>, -7>>, <<-1, <<12015, 12234, 10620>>, -43>>, <<-1, <<2551, 12901, 3508, 40>>, -94>>>>
      [] n = 5 -> <<<<1, <<11>>, -3>>, <<-1, <<4323, 12664, 2608>>, -41>>, <<1, <<8499, 2124, 8381, 317>>, -96>>>>
      [] n = 6 -> <<<<1, <<175>>, -7>>, <<-1, <<4309, 6211, 10248>>, -43>>, <<1, <<1437, 6916, 6047, 904>>, -101>>>>
      [] n = 7 -> <<<<1, <<87>>, -6>>, <<-1, <<11561, 9770, 10060>>, -43>>, <<1, <<3235, 4298, 6371, 33>>, -92>>>>
      [] n = 8 -> <<<<1, <<173>>, -7>>, <<-1, <<13617, 16108, 616>>, -39>>, <<1, <<73, 10635, 2670, 683>>, -96>>>>
      [] n = 9 -> <<<<1, <<43>>, -5>>, <<-1, <<5897, 7255, 2420>>, -41>>, <<1, <<9595, 3291, 13885, 179>>, -94>>>>
      [] n = 10 -> <<<<1, <<171>>, -7>>, <<-1, <<15313, 11529, 9490>>, -43>>, <<1, <<12351, 6974, 8523, 1394>>, -98>>>>
      [] n = 11 -> <<<<1, <<171>>, -7>>, <<-1, <<15313, 11529, 9490>>, -43>>, <<1, <<12351, 6974, 8523, 1394>>, -98>>>>
      [] n = 12 -> <<<<1, <<85>>, -6>>, <<-1, <<14831, 8445, 9298>>, -43>>, <<-1, <<11579, 4263, 4385, 715>>, -97>>>>
      [] n = 13 -> <<<<1, <<169>>, -7>>, <<-1, <<11571, 3168, 9105>>, -43>>, <<-1, <<5377, 10471, 16113, 506>>, -96>>>>
      [] n = 14 -> <<<<1, <<21>>, -4>>, <<-1, <<13685, 11861, 8910>>, -43>>, <<1, <<10895, 3296, 8134, 124>>, -94>>>>
      [] n = 15 -> <<<<1, <<167>>, -7>>, <<-1, <<13769, 1532, 8715>>, -43>>, <<-1, <<11571, 14858, 1575, 725>>, -96>>>>
      [] n = 16 -> <<<<1, <<83>>, -6>>, <<-1, <<10041, 2360, 4259>>, -42>>, <<-1, <<391, 15848, 8051, 909>>, -98>>>>
      [] n = 17 -> <<<<1, <<165>>, -7>>, <<-1, <<2893, 2405, 4160>>, -42>>, <<-1, <<11647, 15312, 11145, 1037>>, -100>>>>
      [] n = 18 -> <<<<1, <<165>>, -7>>, <<-1, <<2893, 2405, 4160>>, -42>>, <<-1, <<11647, 15312, 11145, 1037>>, -100>>>>
      [] n = 19 -> <<<<1, <<41>>, -5>>, <<-1, <<13689, 4486, 2030>>, -41>>, <<1, <<15495, 11876, 12970, 1877>>, -99>>>>
      [] n = 20 -> <<<<1, <<163>>, -7>>, <<-1, <<7907, 5561, 3960>>, -42>>, <<1, <<11209, 7302, 6878, 434>>, -95>>>>
      [] n = 21 -> <<<<1, <<81>>, -6>>, <<-1, <<8879, 475, 7719>>, -43>>, <<-1, <<16369, 5391, 12111, 92>>, -94>>>>
      [] n = 22 -> <<<<1, <<161>>, -7>>, <<-1, <<11583, 534, 1879>>, -41>>, <<1, <<10267, 12073, 10523, 1134>>, -97>>>>
      [] n = 23 -> <<<<1, <<5>>, -2>>, <<-1, <<15573, 16120, 3655>>, -42>>, <<1, <<8461, 10399, 9533, 375>>, -95>>>>
      [] n = 24 -> <<<<1, <<5>>, -2>>, <<-1, <<15573, 16120, 3655>>, -42>>, <<1, <<8461, 10399, 9533, 375>>, -95>>>>
      [] n = 25 -> <<<<1, <<159>>, -7>>, <<-1, <<729, 8605, 7106>>, -43>>, <<1, <<14223, 1582, 11011, 1619>>, -98>>>>
      [] n = 26 -> <<<<1, <<79>>, -6>>, <<-1, <<14851, 15508, 1724>>, -41>>, <<1, <<2099, 16283, 13081, 841>>, -103>>>>
      [] n = 27 -> <<<<1, <<157>>, -7>>, <<-1, <<15915, 12039, 6691>>, -43>>, <<-1, <<8437, 14477, 8998, 689>>, -96>>>>
      [] n = 28 -> <<<<1, <<157>>, -7>>, <<-1, <<15915, 12039, 6691>>, -43>>, <<-1, <<8437, 14477, 8998, 689>>, -96>>>>
      [] n = 29 -> <<<<1, <<39>>, -5>>, <<-1, <<3909, 5799, 6482>>, -43>>, <<-1, <<5347, 4871, 7568, 1716>>, -97>>>>
      [] n = 30 -> <<<<1, <<155>>, -7>>, <<-1, <<4621, 10265, 6271>>, -43>>, <<1, <<14857, 16239, 7159, 1775>>, -97>>>>
      [] n = 31 -> <<<<1, <<77>>, -6>>, <<-1, <<4231, 12576, 3029>>, -42>>, <<1, <<10571, 14633, 14112, 222>>, -94>>>>
      [] n = 32 -> <<<<1, <<77>>, -6>>, <<-1, <<4231, 12576, 3029>>, -42>>, <<1, <<10571, 14633, 14112, 222>>, -94>>>>
      [] n = 33 -> <<<<1, <<153>>, -7>>, <<-1, <<12701, 1017, 5846>>, -43>>, <<-1, <<12595, 1893, 9045, 540>>, -97>>>>
      [] n = 34 -> <<<<1, <<19>>, -4>>, <<-1, <<2681, 3100, 5631>>, -43>>, <<-1, <<4153, 15425, 9273, 1959>>, -98>>>>
      [] n = 35 -> <<<<1, <<19>>, -4>>, <<-1, <<2681, 3100, 5631>>, -43>>, <<-1, <<4153, 15425, 9273, 1959>>, -98>>>>
      [] n = 36 -> <<<<1, <<151>>, -7>>, <<-1, <<14875, 14712, 5414>>, -43>>, <<-1, <<7055, 29, 10425, 1079>>, -97>>>>
      [] n = 37 -> <<<<1, <<75>>, -6>>, <<-1, <<6551, 10587, 649>>, -40>>, <<1, <<7695, 8501, 13061, 368>>, -96>>>>
      [] n = 38 -> <<<<1, <<75>>, -6>>, <<-1, <<6551, 10587, 649>>, -40>>, <<1, <<7695, 8501, 13061, 368>>, -96>>>>
      [] n = 39 -> <<<<1, <<149>>, -7>>, <<-1, <<489, 16136, 4977>>, -43>>, <<1, <<10781, 6734, 1074, 559>>, -99>>>>
      [] n = 40 -> <<<<1, <<37>>, -5>>, <<-1, <<511, 5310, 4757>>, -43>>, <<-1, <<14465, 3000, 6752, 164>>, -94>>>>
      [] n = 41 -> <<<<1, <<147>>, -7>>, <<-1, <<10619, 9562, 2267>>, -42>>, <<-1, <<4555, 12323, 1312, 976>>, -96>>>>
      [] n = 42 -> <<<<1, <<147>>, -7>>, <<-1, <<10619, 9562, 2267>>, -42>>, <<-1, <<4555, 12323, 1312, 976>>, -96>>>>
      [] n = 43 -> <<<<1, <<73>>, -6>>, <<-1, <<3337, 8095, 4311>>, -43>>, <<1, <<5885, 2280, 9818, 422>>, -97>>>>
      [] n = 44 -> <<<<1, <<73>>, -6>>, <<-1, <<3337, 8095, 4311>>, -43>>, <<1, <<5885, 2280, 9818, 422>>, -97>>>>
      [] n = 45 -> <<<<1, <<145>>, -7>>, <<-1, <<3807, 4646, 4086>>, -43>>, <<-1, <<6649, 14662, 10914, 686>>, -96>>>>
      [] n = 46 -> <<<<1, <<9>>, -3>>, <<-1, <<11819, 7197, 482>>, -40>>, <<1, <<15, 10992, 4272, 419>>, -95>>>>
      [] n = 47 -> <<<<1, <<9>>, -3>>, <<-1, <<11819, 7197, 482>>, -40>>, <<1, <<15, 10992, 4272, 419>>, -95>>>>
      [] n = 48 -> <<<<1, <<143>>, -7>>, <<-1, <<15727, 9544, 1815>>, -42>>, <<-1, <<7939, 12479, 8890, 929>>, -97>>>>
      [] n = 49 -> <<<<1, <<71>>, -6>>, <<-1, <<4695, 3495, 3401>>, -43>>, <<1, <<13657, 13357, 12907, 169>>, -94>>>>
      [] n = 50 -> <<<<1, <<71>>, -6>>, <<-1, <<4695, 3495, 3401>>, -43>>, <<1, <<13657, 13357, 12907, 169>>, -94>>>>
      [] n = 51 -> <<<<1, <<141>>, -7>>, <<-1, <<12685, 10426, 3169>>, -43>>, <<1, <<10957, 9879, 14418, 155>>, -95>>>>
      [] n = 52 -> <<<<1, <<141>>, -7>>, <<-1, <<12685, 10426, 3169>>, -43>>, <<1, <<10957, 9879, 14418, 155>>, -95>>>>
      [] n = 53 -> <<<<1, <<35>>, -5>>, <<-1, <<5931, 6737, 2936>>, -43>>, <<-1, <<14829, 4710, 14782, 722>>, -96>>>>
      [] n = 54 -> <<<<1, <<139>>, -7>>, <<-1, <<14385, 8423, 2701>>, -43>>, <<1, <<7767, 1817, 9654, 1984>>, -98>>>>
      [] n = 55 -> <<<<1, <<139>>, -7>>, <<-1, <<14385, 8423, 2701>>, -43>>, <<1, <<7767, 1817, 9654, 1984>>, -98>>>>
      [] n = 56 -> <<<<1, <<69>>, -6>>, <<-1, <<12511, 15090, 2464>>, -43>>, <<1, <<5087, 13284, 11692, 1815>>, -97>>>>
      [] n = 57 -> <<<<1, <<69>>, -6>>, <<-1, <<12511, 15090, 2464>>, -43>>, <<1, <<5087, 13284, 11692, 1815>>, -97>>>>
      [] n = 58 -> <<<<1, <<137>>, -7>>, <<-1, <<7495, 10679, 556>>, -41>>, <<1, <<8969, 6718, 1511, 1311>>, -98>>>>
      [] n = 59 -> <<<<1, <<17>>, -4>>, <<-1, <<35, 4486, 993>>, -42>>, <<1, <<3729, 3290, 6632, 1878>>, -97>>>>
      [] n = 60 -> <<<<1, <<17>>, -4>>, <<-1, <<35, 4486, 993>>, -42>>, <<1, <<3729, 3290, 6632, 1878>>, -97>>>>
      [] n = 61 -> <<<<1, <<135>>, -7>>, <<-1, <<8755, 5867, 872>>, -42>>, <<1, <<7187, 9686, 2539, 456>>, -96>>>>
      [] n = 62 -> <<<<1, <<135>>, -7>>, <<-1, <<8755, 5867, 872>>, -42>>, <<1, <<7187, 9686, 2539, 456>>, -96>>>>
      [] n = 63 -> <<<<1, <<67>>, -6>>, <<-1, <<6347, 1423, 1501>>, -43>>, <<-1, <<4343, 10725, 8753, 927>>, -96>>>>
      [] n = 64 -> <<<<1, <<67>>, -6>>, <<-1, <<6347, 1423, 1501>>, -43>>, <<-1, <<4343, 10725, 8753, 927>>, -96>>>>
      [] n = 65 -> <<<<1, <<133>>, -7>>, <<-1, <<10235, 10363, 1255>>, -43>>, <<1, <<16213, 10829, 5567, 672>>, -99>>>>
      [] n = 66 -> <<<<1, <<133>>, -7>>, <<-1, <<10235, 10363, 1255>>, -43>>, <<1, <<16213, 10829, 5567, 672>>, -99>>>>
      [] n = 67 -> <<<<1, <<33>>, -5>>, <<-1, <<8655, 333, 63>>, -39>>, <<-1, <<633, 15486, 153, 408>>, -95>>>>
      [] n = 68 -> <<<<1, <<33>>, -5>>, <<-1, <<8655, 333, 63>>, -39>>, <<-1, <<633, 15486, 153, 408>>, -95>>>>
      [] n = 69 -> <<<<1, <<131>>, -7>>, <<-1, <<4011, 2264, 759>>, -43>>, <<-1, <<9785, 4074, 5449, 1571>>, -97>>>>
      [] n = 70 -> <<<<1, <<65>>, -6>>, <<-1, <<11327, 168, 127>>, -41>>, <<-1, <<10663, 14035, 14835, 497>>, -100>>>>
      [] n = 71 -> <<<<1, <<65>>, -6>>, <<-1, <<11327, 168, 127>>, -41>>, <<-1, <<10663, 14035, 14835, 497>>, -100>>>>
      [] n = 72 -> <<<<1, <<129>>, -7>>, <<-1, <<9905, 14346, 31>>, -40>>, <<-1, <<4153, 3546, 2300, 414>>, -96>>>>
      [] n = 73 -> <<<<1, <<129>>, -7>>, <<-1, <<9905, 14346, 31>>, -40>>, <<-1, <<4153, 3546, 2300, 414>>, -96>>>>
      [] n = 74 -> <<<<1, <<1>>, 0>>, <<0, <<>>, 0>>, <<0, <<>>, 0>>>>
      [] n = 75 -> <<<<1, <<1>>, 0>>, <<0, <<>>, 0>>, <<0, <<>>, 0>>>>
      [] n = 76 -> <<<<1, <<127>>, -7>>, <<1, <<13705, 85, 257>>, -43>>, <<-1, <<9597, 3278, 3799, 134>>, -95>>>>
      [] n = 77 -> <<<<1, <<63>>, -6>>, <<1, <<12583, 690, 516>>, -43>>, <<-1, <<15337, 3525, 8920, 635>>, -96>>>>
      [] n = 78 -> <<<<1, <<125>>, -7>>, <<1, <<10441, 9364, 388>>, -42>>, <<-1, <<781, 12890, 744, 426>>, -95>>>>
      [] n = 79 -> <<<<1, <<31>>, -5>>, <<1, <<10141, 5592, 1040>>, -43>>, <<1, <<5971, 13255, 7173, 1092>>, -99>>>>
      [] n = 80 -> <<<<1, <<123>>, -7>>, <<1, <<10775, 3421, 163>>, -40>>, <<-1, <<16293, 15070, 11494, 224>>, -94>>>>
      [] n = 81 -> <<<<1, <<61>>, -6>>, <<1, <<4735, 2721, 1573>>, -43>>, <<-1, <<9853, 360, 6493, 1630>>, -98>>>>
      [] n = 82 -> <<<<1, <<121>>, -7>>, <<1, <<14199, 14140, 1842>>, -43>>, <<-1, <<10247, 8032, 3876, 1690>>, -98>>>>
      [] n = 83 -> <<<<1, <<241>>, -8>>, <<1, <<27, 8988, 1978>>, -43>>, <<-1, <<15227, 16164, 5092, 1924>>, -99>>>>
      [] n = 84 -> <<<<1, <<239>>, -8>>, <<1, <<2611, 10106, 2251>>, -43>>, <<-1, <<7835, 6198, 9685, 1356>>, -97>>>>
      [] n = 85 -> <<<<1, <<237>>, -8>>, <<1, <<16015, 16052, 2526>>, -43>>, <<1, <<3799, 5997, 1514, 1842>>, -97>>>>
      [] n = 86 -> <<<<1, <<235>>, -8>>, <<1, <<11453, 11081, 2804>>, -43>>, <<-1, <<3727, 14522, 2097, 909>>, -96>>>>
      [] n = 87 -> <<<<1, <<117>>, -7>>, <<1, <<11179, 3376, 1472>>, -42>>, <<1, <<13977, 4923, 13421, 899>>, -100>>>>
      [] n = 88 -> <<<<1, <<29>>, -5>>, <<1, <<13669, 13797, 1612>>, -42>>, <<1, <<9197, 13690, 2785, 610>>, -96>>>>
      [] n = 89 -> <<<<1, <<115>>, -7>>, <<1, <<11627, 6417, 3509>>, -43>>, <<-1, <<10469, 12253, 2050, 1252>>, -98>>>>
      [] n = 90 -> <<<<1, <<229>>, -8>>, <<1, <<1777, 1408, 1826>>, -42>>, <<1, <<11475, 6506, 11548, 1425>>, -97>>>>
      [] n = 91 -> <<<<1, <<227>>, -8>>, <<1, <<6225, 10032, 3939>>, -43>>, <<-1, <<12847, 5628, 8244, 59>>, -92>>>>
      [] n = 92 -> <<<<1, <<113>>, -7>>, <<1, <<3807, 4647, 4084>>, -43>>, <<-1, <<2813, 16004, 3428, 1357>>, -97>>>>
      [] n = 93 -> <<<<1, <<7>>, -3>>, <<1, <<4415, 12752, 2187>>, -42>>, <<1, <<1017, 7258, 15302, 573>>, -96>>>>
      [] n = 94 -> <<<<1, <<223>>, -8>>, <<1, <<8767, 2783, 4522>>, -43>>, <<1, <<9805, 1080, 7737, 458>>, -95>>>>
      [] n = 95 -> <<<<1, <<221>>, -8>>, <<1, <<6413, 2824, 602>>, -40>>, <<1, <<13473, 11782, 5836, 1255>>, -99>>>>
      [] n = 96 -> <<<<1, <<55>>, -6>>, <<1, <<345, 16172, 4965>>, -43>>, <<1, <<12937, 3373, 14978, 1419>>, -103>>>>
      [] n = 97 -> <<<<1, <<109>>, -7>>, <<1, <<13115, 3936, 5265>>, -43>>, <<1, <<14031, 10878, 1778, 172>>, -94>>>>
      [] n = 98 -> <<<<1, <<217>>, -8>>, <<1, <<2587, 14713, 5415>>, -43>>, <<1, <<15815, 5541, 16014, 1420>>, -97>>>>
      [] n = 99 -> <<<<1, <<215>>, -8>>, <<1, <<10433, 5039, 5719>>, -43>>, <<1, <<1487, 5662, 7958, 206>>, -95>>>>
      [] n = 100 -> <<<<1, <<107>>, -7>>, <<1, <<14167, 1186, 5872>>, -43>>, <<-1, <<8673, 5744, 6366, 1348>>, -97>>>>
      [] n = 101 -> <<<<1, <<213>>, -8>>, <<1, <<5189, 9057, 6025>>, -43>>, <<-1, <<773, 581, 8455, 1817>>, -98>>>>
      [] n = 102 -> <<<<1, <<211>>, -8>>, <<1, <<11065, 15039, 395>>, -39>>, <<-1, <<11473, 11172, 5450, 1487>>, -99>>>>
      [] n = 103 -> <<<<1, <<105>>, -7>>, <<1, <<7415, 10603, 405>>, -39>>, <<1, <<16239, 8835, 8837, 1532>>, -99>>>>
      [] n = 104 -> <<<<1, <<13>>, -4>>, <<1, <<9303, 15783, 3401>>, -42>>, <<-1, <<8553, 344, 9269, 1564>>, -97>>>>
      [] n = 105 -> <<<<1, <<207>>, -8>>, <<1, <<13757, 13845, 6961>>, -43>>, <<-1, <<12501, 7513, 11370, 902>>, -98>>>>
      [] n = 106 -> <<<<1, <<103>>, -7>>, <<1, <<479, 4327, 3560>>, -42>>, <<-1, <<2395, 12968, 7714, 937>>, -96>>>>
      [] n = 107 -> <<<<1, <<205>>, -8>>, <<1, <<12033, 16113, 7279>>, -43>>, <<-1, <<5609, 2860, 9110, 573>>, -99>>>>
      [] n = 108 -> <<<<1, <<203>>, -8>>, <<1, <<3401, 3948, 7601>>, -43>>, <<-1, <<12341, 7254, 12975, 1727>>, -97>>>>
      [] n = 109 -> <<<<1, <<101>>, -7>>, <<1, <<15985, 959, 7763>>, -43>>, <<1, <<8003, 6160, 4647, 72>>, -99>>>>
      [] n = 110 -> <<<<1, <<201>>, -8>>, <<1, <<9437, 5815, 495>>, -39>>, <<-1, <<3601, 5870, 4438, 1672>>, -103>>>>
      [] n = 111 -> <<<<1, <<25>>, -5>>, <<1, <<2875, 1819, 8089>>, -43>>, <<1, <<3571, 12931, 3052, 111>>, -94>>>>
      [] n = 112 -> <<<<1, <<99>>, -7>>, <<1, <<2475, 7216, 8418>>, -43>>, <<1, <<3729, 7093, 3505, 1575>>, -100>>>>
      [] n = 113 -> <<<<1, <<197>>, -8>>, <<1, <<15115, 1452, 2146>>, -41>>, <<1, <<10985, 6387, 2225, 1478>>, -97>>>>
      [] n = 114 -> <<<<1, <<49>>, -6>>, <<1, <<1277, 1857, 8751>>, -43>>, <<-1, <<15367, 9125, 1081, 450>>, -95>>>>
      [] n = 115 -> <<<<1, <<195>>, -8>>, <<1, <<13727, 11877, 8918>>, -43>>, <<1, <<5761, 7828, 11487, 1766>>, -97>>>>
      [] n = 116 -> <<<<1, <<97>>, -7>>, <<1, <<11085, 3249, 9087>>, -43>>, <<1, <<15799, 1310, 11989, 1833>>, -97>>>>
      [] n = 117 -> <<<<1, <<193>>, -8>>, <<1, <<8663, 8886, 9256>>, -43>>, <<1, <<7541, 13453, 16117, 848>>, -98>>>>
      [] n = 118 -> <<<<1, <<191>>, -8>>, <<1, <<3529, 15391, 4798>>, -42>>, <<1, <<317, 2640, 13289, 425>>, -95>>>>
      [] n = 119 -> <<<<1, <<95>>, -7>>, <<1, <<3739, 7740, 2442>>, -41>>, <<-1, <<10135, 10640, 1269, 199>>, -94>>>>
      [] n = 120 -> <<<<1, <<189>>, -8>>, <<1, <<11233, 6621, 4971>>, -42>>, <<1, <<12025, 6264, 7579, 139>>, -95>>>>
      [] n = 121 -> <<<<1, <<47>>, -6>>, <<1, <<13107, 5277, 5058>>, -42>>, <<1, <<12119, 13830, 11602, 387>>, -96>>>>
      [] n = 122 -> <<<<1, <<187>>, -8>>, <<1, <<15037, 6673, 10291>>, -43>>, <<1, <<8349, 12867, 878, 1593>>, -99>>>>
      [] n = 123 -> <<<<1, <<93>>, -7>>, <<1, <<3641, 1761, 10467>>, -43>>, <<-1, <<5749, 9631, 15584, 1993>>, -97>>>>
      [] n = 124 -> <<<<1, <<185>>, -8>>, <<1, <<8563, 14375, 5321>>, -42>>, <<-1, <<13865, 6922, 548, 482>>, -95>>>>
      [] n = 125 -> <<<<1, <<23>>, -5>>, <<1, <<14789, 5568, 2705>>, -41>>, <<1, <<1881, 1427, 9992, 1967>>, -97>>>>
      [] n = 126 -> <<<<1, <<183>>, -8>>, <<1, <<15501, 15828, 5499>>, -42>>, <<1, <<239, 14709, 7902, 2027>>, -98>>>>
      [] n = 127 -> <<<<1, <<91>>, -7>>, <<1, <<15051, 14267, 2794>>, -41>>, <<-1, <<6519, 2212, 11432, 416>>, -97>>>>

\* row j of the table of exp_inline: the tail of 2^(j/N) and 2^(j/N), N = 128
ExpTab(j) ==
    CASE j = 0 -> <<<<0, <<>>, 0>>, <<1, <<1>>, 0>>>>
      [] j = 1 -> <<<<1, <<8119, 13585, 6776, 871>>, -105>>, <<1, <<13109, 10220, 9178, 1029>>, -52>>>>
      [] j = 2 -> <<<<-1, <<7261, 13155, 313, 1112>>, -108>>, <<1, <<97, 14814, 2467, 1035>>, -52>>>>
      [] j = 3 -> <<<<-1, <<9937, 541, 10145, 1047>>, -106>>, <<1, <<16261, 8633, 12638, 1040>>, -52>>>>
      [] j = 4 -> <<<<1, <<13843, 5535, 9507, 1844>>, -107>>, <<1, <<8541, 4885, 9923, 261>>, -50>>>>
      [] j = 5 -> <<<<-1, <<1917, 2035, 13313, 889>>, -106>>, <<1, <<15215, 5051, 857, 526>>, -51>>>>
      [] j = 6 -> <<<<1, <<2145, 1947, 13542, 1085>>, -109>>, <<1, <<13177, 3130, 3722, 132>>, -49>>>>
      [] j = 7 -> <<<<1, <<5017, 11471, 15941, 1064>>, -106>>, <<1, <<13187, 11035, 9196, 1063>>, -52>>>>
      [] j = 8 -> <<<<1, <<15213, 13837, 10853, 1510>>, -106>>, <<1, <<2319, 13286, 5510, 1069>>, -52>>>>
      [] j = 9 -> <<<<1, <<15359, 4861, 5226, 491>>, -105>>, <<1, <<2039, 11721, 2338, 1075>>, -52>>>>
      [] j = 10 -> <<<<1, <<7377, 190, 9175, 1967>>, -112>>, <<1, <<10449, 9639, 8033, 540>>, -51>>>>
      [] j = 11 -> <<<<-1, <<11787, 9793, 13128, 1664>>, -109>>, <<1, <<4891, 16379, 13930, 1086>>, -52>>>>
      [] j = 12 -> <<<<-1, <<7815, 5215, 12945, 682>>, -105>>, <<1, <<6993, 73, 12317, 1092>>, -52>>>>
      [] j = 13 -> <<<<-1, <<10837, 12603, 3832, 1056>>, -110>>, <<1, <<3187, 108, 10999, 274>>, -50>>>>
      [] j = 14 -> <<<<-1, <<14859, 13227, 2333, 569>>, -105>>, <<1, <<2415, 5589, 8525, 34>>, -47>>>>
      [] j = 15 -> <<<<1, <<5551, 9585, 15934, 1076>>, -107>>, <<1, <<3665, 8854, 10636, 1110>>, -52>>>>
      [] j = 16 -> <<<<-1, <<12905, 13650, 13867, 128>>, -104>>, <<1, <<4475, 12789, 11139, 1116>>, -52>>>>
      [] j = 17 -> <<<<-1, <<12861, 6008, 16133, 1991>>, -107>>, <<1, <<1781, 12569, 6089, 561>>, -51>>>>
      [] j = 18 -> <<<<1, <<5055, 15437, 6339, 1762>>, -107>>, <<1, <<2933, 11711, 13758, 1128>>, -52>>>>
      [] j = 19 -> <<<<-1, <<13715, 11299, 3299, 731>>, -105>>, <<1, <<5941, 1028, 12162, 283>>, -50>>>>
      [] j = 20 -> <<<<1, <<4475, 10183, 13947, 53>>, -101>>, <<1, <<7381, 8913, 9273, 570>>, -51>>>>
      [] j = 21 -> <<<<-1, <<14493, 11800, 14380, 2041>>, -107>>, <<1, <<6429, 3059, 5378, 1147>>, -52>>>>
      [] j = 22 -> <<<<1, <<909, 4763, 13332, 1691>>, -107>>, <<1, <<1643, 4293, 12764, 576>>, -51>>>>
      [] j = 23 -> <<<<1, <<1149, 912, 8283, 1054>>, -107>>, <<1, <<11851, 8955, 14924, 579>>, -51>>>>
      [] j = 24 -> <<<<1, <<10789, 9128, 15351, 360>>, -104>>, <<1, <<11335, 14138, 12532, 145>>, -49>>>>
      [] j = 25 -> <<<<1, <<2173, 2513, 8591, 1495>>, -107>>, <<1, <<9791, 16074, 7396, 1172>>, -52>>>>
      [] j = 26 -> <<<<1, <<13305, 12351, 14684, 520>>, -106>>, <<1, <<15581, 6025, 13398, 1178>>, -52>>>>
      [] j = 27 -> <<<<-1, <<1071, 16098, 985, 727>>, -105>>, <<1, <<9089, 2005, 3582, 1185>>, -52>>>>
      [] j = 28 -> <<<<1, <<11057, 13350, 15894, 1213>>, -107>>, <<1, <<7905, 5247, 10719, 1191>>, -52>>>>
      [] j = 29 -> <<<<-1, <<8189, 13535, 3288, 932>>, -111>>, <<1, <<11673, 13366, 14463, 74>>, -48>>>>
      [] j = 30 -> <<<<1, <<685, 12812, 7689, 435>>, -105>>, <<1, <<779, 7056, 10330, 1204>>, -52>>>>
      [] j = 31 -> <<<<1, <<2959, 10043, 2344, 1925>>, -109>>, <<1, <<6059, 4732, 9597, 605>>, -51>>>>
      [] j = 32 -> <<<<1, <<5595, 7009, 11178, 617>>, -106>>, <<1, <<14101, 10438, 12256, 1217>>, -52>>>>
      [] j = 33 -> <<<<1, <<7443, 8876, 2055, 356>>, -105>>, <<1, <<6193, 12595, 5903, 1224>>, -52>>>>
      [] j = 34 -> <<<<1, <<15397, 15271, 10698, 1019>>, -106>>, <<1, <<5887, 2448, 139, 1231>>, -52>>>>
      [] j = 35 -> <<<<-1, <<5825, 15246, 3584, 362>>, -105>>, <<1, <<8177, 15946, 11349, 1237>>, -52>>>>
      [] j = 36 -> <<<<-1, <<10765, 9765, 5595, 146>>, -103>>, <<1, <<10699, 7402, 6771, 1244>>, -52>>>>
      [] j = 37 -> <<<<-1, <<5831, 13986, 16320, 800>>, -105>>, <<1, <<11315, 6667, 9587, 625>>, -51>>>>
      [] j = 38 -> <<<<-1, <<7017, 15656, 3905, 570>>, -107>>, <<1, <<8183, 5014, 15795, 1257>>, -52>>>>
      [] j = 39 -> <<<<-1, <<6933, 3896, 4507, 1606>>, -106>>, <<1, <<10469, 3150, 13020, 1264>>, -52>>>>
      [] j = 40 -> <<<<1, <<3181, 7337, 13450, 1383>>, -107>>, <<1, <<6673, 6180, 13618, 635>>, -51>>>>
      [] j = 41 -> <<<<-1, <<13509, 13392, 4867, 610>>, -105>>, <<1, <<8199, 1196, 10516, 319>>, -50>>>>
      [] j = 42 -> <<<<-1, <<2395, 8286, 14580, 1577>>, -110>>, <<1, <<5909, 1006, 12369, 642>>, -51>>>>
      [] j = 43 -> <<<<-1, <<6683, 7462, 2486, 1803>>, -108>>, <<1, <<10391, 9538, 8029, 1292>>, -52>>>>
      [] j = 44 -> <<<<1, <<11281, 778, 16086, 1240>>, -111>>, <<1, <<2349, 390, 8326, 1299>>, -52>>>>
      [] j = 45 -> <<<<1, <<9455, 11289, 8339, 1433>>, -106>>, <<1, <<87, 13428, 9246, 1306>>, -52>>>>
      [] j = 46 -> <<<<1, <<889, 10884, 3613, 1971>>, -109>>, <<1, <<5069, 11632, 1698, 82>>, -48>>>>
      [] j = 47 -> <<<<1, <<12579, 4035, 16270, 79>>, -102>>, <<1, <<10735, 8623, 6487, 660>>, -51>>>>
      [] j = 48 -> <<<<1, <<11003, 11998, 4302, 90>>, -104>>, <<1, <<10791, 5336, 15789, 1327>>, -52>>>>
      [] j = 49 -> <<<<1, <<8311, 11603, 7134, 1223>>, -106>>, <<1, <<7437, 10231, 2857, 1335>>, -52>>>>
      [] j = 50 -> <<<<-1, <<4551, 227, 8608, 1010>>, -106>>, <<1, <<11431, 6772, 6951, 1342>>, -52>>>>
      [] j = 51 -> <<<<-1, <<9033, 12878, 11469, 1527>>, -107>>, <<1, <<13089, 1438, 14037, 674>>, -51>>>>
      [] j = 52 -> <<<<-1, <<14431, 13372, 11371, 1591>>, -108>>, <<1, <<10177, 11578, 8538, 678>>, -51>>>>
      [] j = 53 -> <<<<-1, <<11899, 6390, 4663, 706>>, -106>>, <<1, <<4623, 10614, 6732, 1364>>, -52>>>>
      [] j = 54 -> <<<<1, <<11207, 12795, 10280, 614>>, -105>>, <<1, <<5101, 11626, 14905, 685>>, -51>>>>
      [] j = 55 -> <<<<1, <<6917, 15914, 2930, 1766>>, -108>>, <<1, <<2045, 4703, 4397, 1379>>, -52>>>>
      [] j = 56 -> <<<<1, <<5129, 2161, 15902, 1048>>, -106>>, <<1, <<5161, 13601, 12413, 1386>>, -52>>>>
      [] j = 57 -> <<<<1, <<9077, 8243, 15402, 664>>, -111>>, <<1, <<1719, 10597, 4712, 1394>>, -52>>>>
      [] j = 58 -> <<<<1, <<53, 11667, 11874, 1292>>, -106>>, <<1, <<9257, 2774, 3806, 175>>, -49>>>>
      [] j = 59 -> <<<<-1, <<13983, 1637, 1190, 1849>>, -107>>, <<1, <<7177, 9691, 7707, 1409>>, -52>>>>
      [] j = 60 -> <<<<-1, <<10677, 7671, 10122, 225>>, -104>>, <<1, <<5509, 233, 2027, 1417>>, -52>>>>
      [] j = 61 -> <<<<-1, <<13527, 4695, 7108, 650>>, -106>>, <<1, <<9753, 1689, 8611, 44>>, -47>>>>
      [] j = 62 -> <<<<-1, <<2827, 15403, 7610, 158>>, -103>>, <<1, <<8741, 2388, 9096, 1432>>, -52>>>>
      [] j = 63 -> <<<<1, <<1625, 126, 682, 369>>, -108>>, <<1, <<10611, 4402, 5469, 1440>>, -52>>>>
      [] j = 64 -> <<<<-1, <<1093, 8111, 10207, 157>>, -103>>, <<1, <<15309, 6652, 2534, 1448>>, -52>>>>
      [] j = 65 -> <<<<-1, <<7361, 3689, 5484, 834>>, -108>>, <<1, <<6847, 5167, 295, 1456>>, -52>>>>
      [] j = 66 -> <<<<-1, <<5367, 12507, 16253, 620>>, -108>>, <<1, <<6703, 12692, 15139, 1463>>, -52>>>>
      [] j = 67 -> <<<<-1, <<2129, 4994, 981, 1079>>, -107>>, <<1, <<9505, 14673, 15863, 367>>, -50>>>>
      [] j = 68 -> <<<<-1, <<16079, 14696, 13895, 1543>>, -108>>, <<1, <<6109, 10476, 15831, 369>>, -50>>>>
      [] j = 69 -> <<<<-1, <<14299, 12322, 11850, 91>>, -103>>, <<1, <<8285, 2213, 15977, 371>>, -50>>>>
      [] j = 70 -> <<<<-1, <<13125, 15531, 2448, 707>>, -106>>, <<1, <<10185, 6409, 16053, 1495>>, -52>>>>
      [] j = 71 -> <<<<1, <<5331, 14375, 3253, 1063>>, -106>>, <<1, <<7487, 16249, 1684, 1504>>, -52>>>>
      [] j = 72 -> <<<<-1, <<9501, 9526, 11723, 1740>>, -108>>, <<1, <<391, 4012, 4423, 1512>>, -52>>>>
      [] j = 73 -> <<<<1, <<107, 4511, 4053, 1339>>, -106>>, <<1, <<8345, 609, 3944, 760>>, -51>>>>
      [] j = 74 -> <<<<1, <<11349, 12121, 15898, 1402>>, -109>>, <<1, <<10033, 11678, 6041, 764>>, -51>>>>
      [] j = 75 -> <<<<-1, <<10145, 8039, 3625, 788>>, -106>>, <<1, <<3337, 10364, 8506, 768>>, -51>>>>
      [] j = 76 -> <<<<-1, <<3533, 12603, 9947, 310>>, -104>>, <<1, <<3603, 9523, 6297, 1545>>, -52>>>>
      [] j = 77 -> <<<<-1, <<16271, 13363, 13345, 523>>, -106>>, <<1, <<1965, 6287, 12708, 1553>>, -52>>>>
      [] j = 78 -> <<<<-1, <<11191, 12516, 8838, 666>>, -105>>, <<1, <<4845, 11538, 3481, 1562>>, -52>>>>
      [] j = 79 -> <<<<1, <<1861, 3766, 1387, 2>>, -97>>, <<1, <<9881, 9769, 11389, 1570>>, -52>>>>
      [] j = 80 -> <<<<1, <<15021, 496, 7359, 475>>, -105>>, <<1, <<8411, 2218, 3668, 1579>>, -52>>>>
      [] j = 81 -> <<<<-1, <<10239, 13079, 9737, 1389>>, -109>>, <<1, <<4387, 5813, 15560, 396>>, -50>>>>
      [] j = 82 -> <<<<1, <<6097, 6643, 6669, 447>>, -106>>, <<1, <<15259, 12842, 3444, 798>>, -51>>>>
      [] j = 83 -> <<<<-1, <<15747, 7288, 4602, 1218>>, -106>>, <<1, <<16355, 5923, 8920, 802>>, -51>>>>
      [] j = 84 -> <<<<-1, <<7721, 11696, 7048, 1898>>, -110>>, <<1, <<1509, 823, 13179, 1613>>, -52>>>>
      [] j = 85 -> <<<<-1, <<14681, 12866, 16279, 1800>>, -109>>, <<1, <<4623, 12065, 9292, 1622>>, -52>>>>
      [] j = 86 -> <<<<-1, <<15573, 1513, 6681, 584>>, -105>>, <<1, <<9445, 10231, 15746, 101>>, -48>>>>
      [] j = 87 -> <<<<-1, <<3659, 7578, 9933, 1394>>, -107>>, <<1, <<989, 8596, 1931, 820>>, -51>>>>
      [] j = 88 -> <<<<1, <<3623, 11847, 16322, 1131>>, -108>>, <<1, <<16137, 8360, 1169, 103>>, -48>>>>
      [] j = 89 -> <<<<1, <<13243, 1065, 9054, 1908>>, -109>>, <<1, <<8995, 10124, 1585, 1658>>, -52>>>>
      [] j = 90 -> <<<<-1, <<8803, 2440, 4162, 1521>>, -107>>, <<1, <<9573, 11639, 1639, 1667>>, -52>>>>
      [] j = 91 -> <<<<1, <<12757, 3976, 2158, 1735>>, -107>>, <<1, <<11571, 12584, 2494, 1676>>, -52>>>>
      [] j = 92 -> <<<<-1, <<15125, 3826, 15645, 1134>>, -106>>, <<1, <<9565, 2296, 4155, 1685>>, -52>>>>
      [] j = 93 -> <<<<1, <<6377, 14812, 8588, 537>>, -105>>, <<1, <<5739, 2456, 13116, 211>>, -49>>>>
      [] j = 94 -> <<<<1, <<6835, 14797, 6214, 1306>>, -107>>, <<1, <<15807, 5607, 9909, 1703>>, -52>>>>
      [] j = 95 -> <<<<-1, <<10093, 6030, 16182, 301>>, -105>>, <<1, <<14781, 16295, 7005, 856>>, -51>>>>
      [] j = 96 -> <<<<1, <<13191, 2860, 10105, 1798>>, -107>>, <<1, <<5037, 9579, 2553, 1722>>, -52>>>>
      [] j = 97 -> <<<<-1, <<11517, 5539, 7290, 527>>, -105>>, <<1, <<6963, 4891, 12345, 865>>, -51>>>>
      [] j = 98 -> <<<<-1, <<5981, 11705, 7882, 696>>, -109>>, <<1, <<5627, 8508, 14891, 1740>>, -52>>>>
      [] j = 99 -> <<<<-1, <<7129, 9178, 10499, 16>>, -100>>, <<1, <<11421, 7114, 2964, 875>>, -51>>>>
      [] j = 100 -> <<<<-1, <<9421, 14509, 7120, 397>>, -107>>, <<1, <<7751, 3053, 14191, 1759>>, -52>>>>
      [] j = 101 -> <<<<-1, <<2613, 11618, 11814, 1147>>, -106>>, <<1, <<805, 8514, 11649, 884>>, -51>>>>
      [] j = 102 -> <<<<1, <<7629, 10623, 15728, 1343>>, -108>>, <<1, <<8425, 8343, 8436, 889>>, -51>>>>
      [] j = 103 -> <<<<-1, <<9771, 14994, 14319, 283>>, -104>>, <<1, <<7689, 12124, 11301, 1788>>, -52>>>>
      [] j = 104 -> <<<<1, <<3251, 700, 10979, 1243>>, -108>>, <<1, <<5287, 7557, 9839, 449>>, -50>>>>
      [] j = 105 -> <<<<1, <<16229, 7327, 3273, 494>>, -105>>, <<1, <<10301, 16383, 1370, 904>>, -51>>>>
      [] j = 106 -> <<<<1, <<5739, 4361, 575, 334>>, -105>>, <<1, <<4427, 14687, 16146, 1817>>, -52>>>>
      [] j = 107 -> <<<<1, <<6759, 8504, 6899, 1267>>, -109>>, <<1, <<10165, 4123, 14041, 1827>>, -52>>>>
      [] j = 108 -> <<<<1, <<813, 13897, 5720, 187>>, -106>>, <<1, <<4201, 13246, 12813, 1837>>, -52>>>>
      [] j = 109 -> <<<<-1, <<6889, 1945, 4292, 529>>, -106>>, <<1, <<8701, 10939, 14426, 923>>, -51>>>>
      [] j = 110 -> <<<<-1, <<14959, 16383, 5587, 2027>>, -107>>, <<1, <<8799, 2567, 7349, 464>>, -50>>>>
      [] j = 111 -> <<<<-1, <<10569, 8662, 6883, 1027>>, -106>>, <<1, <<1273, 4123, 15416, 933>>, -51>>>>
      [] j = 112 -> <<<<1, <<1959, 6388, 14426, 1320>>, -108>>, <<1, <<9351, 13294, 397, 1878>>, -52>>>>
      [] j = 113 -> <<<<-1, <<8719, 256, 6626, 1188>>, -107>>, <<1, <<12403, 2916, 454, 236>>, -49>>>>
      [] j = 114 -> <<<<1, <<9387, 5569, 10563, 485>>, -105>>, <<1, <<12933, 3948, 7776, 1898>>, -52>>>>
      [] j = 115 -> <<<<1, <<11083, 12293, 9626, 1294>>, -107>>, <<1, <<3491, 15968, 10640, 59>>, -47>>>>
      [] j = 116 -> <<<<-1, <<15903, 7888, 4624, 1205>>, -107>>, <<1, <<7007, 3566, 2419, 1919>>, -52>>>>
      [] j = 117 -> <<<<-1, <<3529, 11548, 11155, 1610>>, -107>>, <<1, <<8489, 5078, 9313, 1929>>, -52>>>>
      [] j = 118 -> <<<<1, <<2259, 234, 8262, 1325>>, -108>>, <<1, <<8187, 3862, 375, 970>>, -51>>>>
      [] j = 119 -> <<<<1, <<12913, 1653, 7877, 1265>>, -107>>, <<1, <<3203, 12061, 9503, 1950>>, -52>>>>
      [] j = 120 -> <<<<-1, <<14623, 9204, 14098, 127>>, -103>>, <<1, <<2157, 1353, 9597, 980>>, -51>>>>
      [] j = 121 -> <<<<-1, <<13437, 2189, 10638, 1899>>, -107>>, <<1, <<10225, 13881, 13442, 1971>>, -52>>>>
      [] j = 122 -> <<<<1, <<1025, 8405, 1912, 246>>, -104>>, <<1, <<6695, 14725, 8638, 1982>>, -52>>>>
      [] j = 123 -> <<<<1, <<13721, 1875, 7334, 645>>, -106>>, <<1, <<14999, 7598, 4787, 1993>>, -52>>>>
      [] j = 124 -> <<<<1, <<759, 9123, 9545, 844>>, -106>>, <<1, <<14613, 9654, 5149, 31>>, -46>>>>
      [] j = 125 -> <<<<-1, <<9197, 4335, 15278, 1933>>, -107>>, <<1, <<12165, 11676, 12278, 503>>, -50>>>>
      [] j = 126 -> <<<<1, <<3485, 13895, 5044, 1506>>, -108>>, <<1, <<4635, 207, 3971, 253>>, -49>>>>
      [] j = 127 -> <<<<1, <<3209, 1411, 7188, 1217>>, -110>>, <<1, <<12785, 11837, 15394, 2036>>, -52>>>>

\* the top 20 bits of the fraction of x, less those of OFF = 0x3fe6955500000000
LogOffset(x) ==
    BInt(BShr(BShl(x[2], Precision - BitLen(x[2])), 32)) - Pow2(20) - 431445

\* k of log_inline: x = 2^k * z with z in [OFF, 2 * OFF)
LogK(x) == IF LogOffset(x) >= 0 THEN Top(x) ELSE Top(x) - 1

\* i of log_inline: the subinterval of [OFF, 2 * OFF) that z is in
LogI(x) == ((LogOffset(x) + Pow2(20)) % Pow2(20)) \div Pow2(13)

\* the straight-line arithmetic of pow, after log_inline and exp_inline of
\* e_pow.c as compiled with FMA: each line is <<result, operation, operands>>
\* over named doubles; "fms" is fma(a, b, -c), "tail" and "scale" are the
\* entries of the table of 2^(k/N) for the integer k held in the operand
PowProgram ==
    << <<"r",     "fma", "z", "invc", "minus1">>,
       <<"t1",    "fma", "kd", "Ln2hi", "logc">>,
       <<"t2",    "add", "t1", "r">>,
       <<"lo1",   "fma", "kd", "Ln2lo", "logctail">>,
       <<"t1t2",  "sub", "t1", "t2">>,
       <<"lo2",   "add", "t1t2", "r">>,
       <<"ar",    "mul", "A0", "r">>,
       <<"ar2",   "mul", "r", "ar">>,
       <<"ar3",   "mul", "r", "ar2">>,
       <<"hi",    "add", "t2", "ar2">>,
       <<"lo3",   "fms", "ar", "r", "ar2">>,
       <<"t2hi",  "sub", "t2", "hi">>,
       <<"lo4",   "add", "t2hi", "ar2">>,
       <<"p56",   "fma", "r", "A6", "A5">>,
       <<"p34",   "fma", "r", "A4", "A3">>,
       <<"p12",   "fma", "r", "A2", "A1">>,
       <<"p36",   "fma", "p56", "ar2", "p34">>,
       <<"p",     "fma", "ar2", "p36", "p12">>,
       <<"lo12",  "add", "lo1", "lo2">>,
       <<"lo123", "add", "lo12", "lo3">>,
       <<"lo14",  "add", "lo123", "lo4">>,
       <<"lo",    "fma", "ar3", "p", "lo14">>,
       <<"loghi", "add", "hi", "lo">>,
       <<"hiy",   "sub", "hi", "loghi">>,
       <<"loglo", "add", "hiy", "lo">>,
       <<"ehi",   "mul", "y", "loghi">>,
       <<"yhi",   "fms", "y", "loghi", "ehi">>,
       <<"elo",   "fma", "y", "loglo", "yhi">>,
       <<"ks",    "fma", "ehi", "InvLn2N", "Shift">>,
       <<"k",     "sub", "ks", "Shift">>,
       <<"x1",    "fma", "k", "NegLn2hiN", "ehi">>,
       <<"x2",    "fma", "k", "NegLn2loN", "x1">>,
       <<"s",     "add", "elo", "x2">>,
       <<"s2",    "mul", "s", "s">>,
       <<"c23",   "fma", "s", "C3", "C2">>,
       <<"c45",   "fma", "s", "C5", "C4">>,
       <<"s4",    "mul", "s2", "s2">>,
       <<"tail",  "tail", "k">>,
       <<"scale", "scale", "k">>,
       <<"st",    "add", "s", "tail">>,
       <<"t23",   "fma", "c23", "s2", "st">>,
       <<"tmp",   "fma", "c45", "s4", "t23">>,
       <<"pow",   "fma", "tmp", "scale", "scale">> >>

\* 2^(k/N) as the table has it: the entry of k % N, times 2^(k / N)
ExpScale(row, exponent) == <<1, row[2][2], row[2][3] + exponent>>

\* the double one line of the program computes
Compute(line, regs) ==
    CASE line[2] \in {"add", "sub"} ->
             FAdd(regs[line[3]],
                  IF line[2] = "sub" THEN FNeg(regs[line[4]])
                  ELSE regs[line[4]])
      [] line[2] = "mul" -> FMul(regs[line[3]], regs[line[4]])
      [] line[2] \in {"fma", "fms"} ->
             Fma(regs[line[3]], regs[line[4]],
                 IF line[2] = "fms" THEN FNeg(regs[line[5]])
                 ELSE regs[line[5]])
      [] line[2] = "tail" -> ExpTab(FInt(regs[line[3]]) % 128)[1]
      [] line[2] = "scale" -> ExpScale(ExpTab(FInt(regs[line[3]]) % 128),
                                       FInt(regs[line[3]]) \div 128)

\* the doubles after the line of the program
Step(line, regs) == (line[1] :> Compute(line, regs)) @@ regs

\* the doubles after the lines first..last of the program: the first half of
\* the lines, then the second half from what the first leaves
RECURSIVE Run(_, _, _, _)
Run(program, regs, first, last) ==
    IF first = last THEN Step(program[first], regs)
    ELSE The({ Run(program, half, (first + last) \div 2 + 1, last) :
                 half \in { Run(program, regs, first, (first + last) \div 2) } })

\* what pow starts from: x = 2^k * z and the row of the table of logs for z,
\* the exponent y, and the constants
PowStart(x, y) ==
    [z |-> <<1, x[2], x[3] - LogK(x)>>, kd |-> F(LogK(x)), y |-> y,
     invc |-> LogTab(LogI(x))[1], logc |-> LogTab(LogI(x))[2],
     logctail |-> LogTab(LogI(x))[3], minus1 |-> F(-1)] @@ PowConstants

\* exp_inline returns 1.0 + x for an x below 2^-54; else the program's result
PowResult(regs) ==
    IF regs.ehi[1] = 0 \/ Top(regs.ehi) <= -54 THEN FAdd(F(1), regs.ehi)
    ELSE regs.pow

\* pow(x, y) of the C library, for x > 0
pow(x, y) ==
    The({ PowResult(regs) :
                       regs \in { Run(PowProgram, PowStart(x, y), 1,
                                       Len(PowProgram)) } })

\* float_pow(v, 2.0): 0.0 for 0.0, 1.0 for 1.0 and -1.0, pow(|v|, 2.0) else
float_pow_2(v) ==
    IF v[1] = 0 THEN FZero
    ELSE IF v[2] = <<1>> /\ v[3] = 0 THEN F(1)
    ELSE pow(<<1, v[2], v[3]>>, F(2))

-----------------------------------------------------------------------------
(* Python numbers whose type the code leaves open: [int |-> n] is the int n, *)
(* [float |-> x] the float x, and [nat |-> a] an int >= 0 too large for n,   *)
(* a in limbs                                                                *)

PyInt(n) == [int |-> n]
PyFloat(x) == [float |-> x]

IsInt(v) == "int" \in DOMAIN v
IsFloat(v) == "float" \in DOMAIN v

Abs(n) == IF n < 0 THEN -n ELSE n

\* float(v): the double nearest to an int
ToFloat(v) ==
    IF IsInt(v) THEN F(v.int)
    ELSE IF IsFloat(v) THEN v.float
    ELSE Round(1, v.nat, 0)

\* the limbs of an int >= 0
ToNat(v) == IF IsInt(v) THEN BN(v.int) ELSE v.nat

\* a + b: an int of two ints, else the float sum
Plus(a, b) ==
    IF IsInt(a) /\ IsInt(b) THEN PyInt(a.int + b.int)
    ELSE IF IsFloat(a) \/ IsFloat(b) THEN PyFloat(FAdd(ToFloat(a), ToFloat(b)))
    ELSE [nat |-> BAdd(ToNat(a), ToNat(b))]

\* a - b: an int of two ints, else the float difference
Minus(a, b) ==
    IF IsInt(a) /\ IsInt(b) THEN PyInt(a.int - b.int)
    ELSE PyFloat(FSub(ToFloat(a), ToFloat(b)))

\* a * b: an int of two ints, else the float product
Times(a, b) ==
    IF IsInt(a) /\ IsInt(b) THEN PyInt(a.int * b.int)
    ELSE PyFloat(FMul(ToFloat(a), ToFloat(b)))

\* a / b, b # 0: a float, the double nearest to the quotient of two ints
TrueDiv(a, b) == PyFloat(FDiv(ToFloat(a), ToFloat(b)))

\* d ** 2: the exact square of an int, float_pow(d, 2.0) of a float
Squared(d) ==
    IF IsInt(d) THEN [nat |-> BMul(BN(Abs(d.int)), BN(Abs(d.int)))]
    ELSE PyFloat(float_pow_2(d.float))

\* v > 0
IsPositive(v) == IF IsInt(v) THEN v.int > 0 ELSE v.float[1] > 0

\* sum(terms) over the first n terms: from the int 0, left to right
RECURSIVE SumFirst(_, _)
SumFirst(terms, n) ==
    IF n = 0 THEN PyInt(0)
    ELSE The({ Plus(s, t) : s \in { SumFirst(terms, n - 1) },
                            t \in { terms[n] } })

\* math.sqrt(v): v as a float first
math_sqrt(v) == FSqrt(ToFloat(v))

\* three ints as a list of JSON numbers
Ints(v) == <<PyInt(v[1]), PyInt(v[2]), PyInt(v[3])>>

\* what a JSON number with a fraction loads as: the double nearest to it
Decimal(num, den) == PyFloat(FDiv(F(num), F(den)))

-----------------------------------------------------------------------------
(* GeometryUtils *)

\* ((a - b) ** 2 for a, b in zip(pos1, pos2))
SquaredDifferences(pos1, pos2) ==
    [j \in 1..3 |-> The({ Squared(d) : d \in { Minus(pos1[j], pos2[j]) } })]

\* line 28
calculate_distance(pos1, pos2) ==
    The({ math_sqrt(s) : s \in { SumFirst(SquaredDifferences(pos1, pos2), 3) } })

\* calculate_distance(pos, center) <= cluster_radius
WithinRadius(pos, center) ==
    The({ FLeq(d, F(cluster_radius)) : d \in { calculate_distance(pos, center) } })

calculate_exploration_area(stats) ==
    LET width == Minus(stats.max_bounds[1], stats.min_bounds[1])
        depth == Minus(stats.max_bounds[3], stats.min_bounds[3])
    IN  Times(width, depth)

-----------------------------------------------------------------------------
(* The inputs: contents of the file *)

\* three points at distances 5, 4 and sqrt(41) of each other
Points == { Ints(<<0, 0, 0>>), Ints(<<3, 4, 0>>), Ints(<<3, 4, 4>>) }
Timestamps == { PyInt(0), PyInt(3) }

\* the samples of the short sessions: the first point early, the second
\* late, the third early or late
Samples ==
    { s \in [position : Points, session_time : Timestamps] :
        \/ s.position = Ints(<<0, 0, 0>>) /\ s.session_time = PyInt(0)
        \/ s.position = Ints(<<3, 4, 0>>) /\ s.session_time = PyInt(3)
        \/ s.position = Ints(<<3, 4, 4>>) }

\* the statistics of a short session: a box 10 wide and 20 deep, or bounds
\* with max_bounds below min_bounds on the z axis
StatsChoices ==
    { [min_bounds |-> Ints(<<0, 0, 0>>), max_bounds |-> Ints(<<10, 5, 20>>)],
      [min_bounds |-> Ints(<<2, 0, 7>>), max_bounds |-> Ints(<<9, 4, 4>>)] }

SeqsUpTo(S, n) == UNION { [1..m -> S] : m \in 0..n }

\* short sessions over a few nearby points, timestamps in any order
NearInputs ==
    { [positions |-> ps, statistics |-> st] :
        ps \in SeqsUpTo(Samples, MaxLen), st \in StatsChoices }

\* a session file without the "positions" key
NoPositionsInputs == { [statistics |-> st] : st \in StatsChoices }

Site(j) == Ints(<<6 * j, 3 * j, 6 * j>>)

\* the sites a walk through n sites comes back to
Revisited(n) == {1, n - 1, n}

\* a walk through n sites, each out of reach of the others, then revisits
Route(n, extras) ==
    [j \in 1..(n + Len(extras)) |->
        [position     |-> IF j <= n THEN Site(j) ELSE Site(extras[j - n]),
         session_time |-> PyInt(5 * j)]]

FarInputs ==
    UNION { { [positions  |-> Route(n, ex),
               statistics |-> [min_bounds |-> Site(1), max_bounds |-> Site(n)]] :
                ex \in SeqsUpTo(Revisited(n), MaxExtra) } :
            n \in (top_k - 1)..MaxSites }

\* a walk whose fourth sample is at distance 5 of the mean of the first
\* three, (1/3, 14/3, 1/3), before any rounding
EdgeWalk == << <<0, 4, 0>>, <<0, 5, 0>>, <<1, 5, 1>>, <<1, 3, 5>> >>

EdgeSample(j) == [position |-> Ints(EdgeWalk[j]), session_time |-> PyInt(2 * j)]

EdgeInputs ==
    { [positions  |-> [j \in 1..n |-> EdgeSample(j)],
       statistics |-> [min_bounds |-> Ints(<<0, 3, 0>>),
                       max_bounds |-> Ints(<<1, 5, 5>>)]] :
        n \in 2..Len(EdgeWalk) }

\* a walk with fractions: x = 0.1, 0.2, 0.3 and y = 0, 4, 4, half a second
\* apart
FloatWalk ==
    << <<Decimal(1, 10), PyInt(0), PyInt(0)>>,
       <<Decimal(2, 10), PyInt(4), PyInt(0)>>,
       <<Decimal(3, 10), PyInt(4), PyInt(0)>> >>

FloatSample(j) ==
    [position |-> FloatWalk[j], session_time |-> Decimal(j, 2)]

FloatSamples(n) == [j \in 1..n |-> FloatSample(j)]

\* the position (-6.219512195121951, 8.78048780487805, -3.5853658536585367)
\* and then (-3, 5, -3), at 5.000000000000001 of it as line 28 computes it and
\* at 5.0 if the squares are rounded products
FlipWalk ==
    << <<Decimal(-255, 41), Decimal(360, 41), Decimal(-147, 41)>>,
       Ints(<<-3, 5, -3>>) >>

\* two positions whose squared distance, 9007199388958722, no double holds
FarWalk == << Ints(<<0, 0, 0>>), Ints(<<67108864, 67108865, 1>>) >>

\* the two positions of a walk, at the session times 5 and 10
TwoSamples(walk) ==
    [j \in 1..2 |-> [position |-> walk[j], session_time |-> PyInt(5 * j)]]

\* bounds with fractions: a box 7.0 wide and 6.5 deep
FloatStats ==
    [min_bounds |-> <<Decimal(-13, 2), PyInt(0), PyInt(-4)>>,
     max_bounds |-> <<Decimal(1, 2), PyInt(9), Decimal(5, 2)>>]

FloatInputs ==
    { [positions |-> ps, statistics |-> FloatStats] :
        ps \in { FloatSamples(2), FloatSamples(3), TwoSamples(FlipWalk),
                 TwoSamples(FarWalk) } }

\* a JSON object without any key
EmptyDict == [key \in {} |-> key]

Inputs ==
    NearInputs \cup NoPositionsInputs \cup FarInputs \cup EdgeInputs
        \cup FloatInputs \cup {EmptyDict}

\* what the game may have made of its session file between two polls: one
\* more sample
Grown(f) ==
    IF "positions" \notin DOMAIN f \/ "statistics" \notin DOMAIN f THEN {}
    ELSE { g \in { [positions  |-> Append(f.positions, s),
                    statistics |-> f.statistics] :
                      s \in Samples \cup
                            { [position |-> Site(e),
                               session_time |->
                                   PyInt(5 * (Len(f.positions) + 1))] :
                                 e \in 1..MaxSites } \cup
                            { EdgeSample(j) : j \in 1..Len(EdgeWalk) } \cup
                            { FloatSample(j) : j \in 1..Len(FloatWalk) } } :
             g \in Inputs }

-----------------------------------------------------------------------------
(* analyze_movement_patterns *)

\* nav_data.get("positions", [])
Positions(nd) == IF "positions" \in DOMAIN nd THEN nd.positions ELSE <<>>

\* positions[i-1]["position"] can be read: the entries of positions are the
\* dicts of a session, not the bare lists of the file export_heatmap_data
\* writes (the file that holds "timestamps")
HasSamples(nd) == "timestamps" \notin DOMAIN nd

\* nav_data["statistics"] can be read (and nav_data["session_start"], which
\* the game writes next to it)
HasHeader(nd) == "statistics" \in DOMAIN nd

\* the guard off by one, upwards: two samples are still too few
InsufficientDataAtMostTwo(positions) == Len(positions) <= 2

\* the guard off by one, downwards: only the empty sequence is too short
InsufficientDataOnlyEmpty(positions) == Len(positions) < 1

\* len(positions) < 2
InsufficientData(positions) == Len(positions) < 2

ErrorResult == [error |-> "Not enough position data for analysis"]

\* lines 47-52: what an interval of the given length and duration adds
Accumulate(acc, distance, time_diff) ==
    [total_distance |-> FAdd(acc.total_distance, distance),
     max_distance_per_interval |->
         FMax(acc.max_distance_per_interval, distance),
     speeds |-> IF IsPositive(time_diff)
                THEN Append(acc.speeds, FDiv(distance, ToFloat(time_diff)))
                ELSE acc.speeds]

\* the distance accumulated inside the `if time_diff > 0`
AccumulateGated(acc, distance, time_diff) ==
    IF IsPositive(time_diff)
    THEN [total_distance |-> FAdd(acc.total_distance, distance),
          max_distance_per_interval |->
              FMax(acc.max_distance_per_interval, distance),
          speeds |-> Append(acc.speeds, FDiv(distance, ToFloat(time_diff)))]
    ELSE acc

\* the iteration with the distance accumulated inside the `if time_diff > 0`
MovementIterationGated(positions, n, acc) ==
    The({ AccumulateGated(acc, distance, time_diff) :
            distance \in { calculate_distance(positions[n - 1].position,
                                              positions[n].position) },
            time_diff \in { Minus(positions[n].session_time,
                                  positions[n - 1].session_time) } })

\* one iteration of the loop over consecutive samples (positions[i-1],
\* positions[i]), lines 42-52
MovementIteration(positions, n, acc) ==
    The({ Accumulate(acc, distance, time_diff) :
            distance \in { calculate_distance(positions[n - 1].position,
                                              positions[n].position) },
            time_diff \in { Minus(positions[n].session_time,
                                  positions[n - 1].session_time) } })

\* sum(s) over the first n entries of a list of floats: from the int 0, left
\* to right, each addition rounded (CPython up to 3.11; 0 + x is x)
RECURSIVE FSumFirst(_, _)
FSumFirst(s, n) ==
    IF n = 0 THEN FZero
    ELSE The({ FAdd(t, s[n]) : t \in { FSumFirst(s, n - 1) } })

FSum(s) == FSumFirst(s, Len(s))

\* max(s) over the first n entries: the first of the largest
RECURSIVE FMaxFirst(_, _)
FMaxFirst(s, n) ==
    IF n = 1 THEN s[1]
    ELSE The({ FMax(m, s[n]) : m \in { FMaxFirst(s, n - 1) } })

FMaxOf(s) == FMaxFirst(s, Len(s))

\* sum(speeds) / len(speeds) if speeds else 0: a float, or the int 0
AverageSpeed(sp) ==
    IF sp # <<>> THEN PyFloat(FDiv(FSum(sp), F(Len(sp)))) ELSE PyInt(0)

\* max(speeds) if speeds else 0: a float, or the int 0
MaxSpeed(sp) == IF sp # <<>> THEN PyFloat(FMaxOf(sp)) ELSE PyInt(0)

\* the dict export_heatmap_data dumps, lines 162-168
HeatmapData(nd) ==
    [positions  |-> [j \in 1..Len(Positions(nd)) |->
                        Positions(nd)[j].position],
     timestamps |-> [j \in 1..Len(Positions(nd)) |->
                        Positions(nd)[j].session_time],
     bounds     |-> nd.statistics]

-----------------------------------------------------------------------------
(* find_position_clusters *)

\* the position a member reference points to
PosOf(positions, m) == positions[m].position

\* sum(p[i] for p in members) over the first n members: from the int 0, left
\* to right; an int while the coordinates are ints, else a float
RECURSIVE CoordSum(_, _, _, _)
CoordSum(positions, members, j, n) ==
    IF n = 0 THEN PyInt(0)
    ELSE The({ Plus(s, PosOf(positions, members[n])[j]) :
                 s \in { CoordSum(positions, members, j, n - 1) } })

\* [sum(p[i] for p in members) / len(members) for i in range(3)]
MeanOf(positions, members) ==
    [j \in 1..3 |->
        TrueDiv(CoordSum(positions, members, j, Len(members)),
                PyInt(Len(members)))]

\* index of the first cluster, from index j on, whose center is within the
\* radius of pos; 0 if the scan ends without one
RECURSIVE FirstFitFrom(_, _, _)
FirstFitFrom(cs, pos, j) ==
    IF j > Len(cs) THEN 0
    ELSE IF WithinRadius(pos, cs[j].center) THEN j
    ELSE FirstFitFrom(cs, pos, j + 1)

\* a first fit that prefers the nearest cluster within the radius
NearestFit(cs, pos) ==
    LET d == [j \in 1..Len(cs) |-> calculate_distance(pos, cs[j].center)]
        Q == { j \in 1..Len(cs) : FLeq(d[j], F(cluster_radius)) }
    IN  IF Q = {} THEN 0
        ELSE CHOOSE j \in Q :
                \A q \in Q : FLess(d[j], d[q]) \/ (d[j] = d[q] /\ j <= q)

FirstFit(cs, pos) == FirstFitFrom(cs, pos, 1)

\* joining a cluster without recomputing its center
AddToClusterStaleCenter(cluster, positions, m) ==
    [center     |-> cluster.center,
     positions  |-> Append(cluster.positions, m),
     count      |-> cluster.count + 1,
     time_spent |-> FAdd(cluster.time_spent, F(dwell_increment))]

\* joining a cluster without adding the dwell time
AddToClusterNoDwell(cluster, positions, m) ==
    [center     |-> MeanOf(positions, Append(cluster.positions, m)),
     positions  |-> Append(cluster.positions, m),
     count      |-> cluster.count + 1,
     time_spent |-> cluster.time_spent]

\* the body of the if at lines 84-91: the sample joins the cluster
AddToCluster(cluster, positions, m) ==
    [center     |-> MeanOf(positions, Append(cluster.positions, m)),
     positions  |-> Append(cluster.positions, m),
     count      |-> cluster.count + 1,
     time_spent |-> FAdd(cluster.time_spent, F(dwell_increment))]

\* the dict of lines 96-101: the center is a copy of pos, number for number
NewCluster(positions, m) ==
    [center     |-> PosOf(positions, m),
     positions  |-> <<m>>,
     count      |-> 1,
     time_spent |-> F(dwell_increment)]

\* the loop over the clusters without its break: the sample joins every
\* cluster within the radius
RECURSIVE JoinAllFrom(_, _, _, _)
JoinAllFrom(cs, positions, m, j) ==
    IF j > Len(cs) THEN cs
    ELSE JoinAllFrom(
            IF WithinRadius(PosOf(positions, m), cs[j].center)
            THEN [cs EXCEPT ![j] = AddToCluster(cs[j], positions, m)]
            ELSE cs,
            positions, m, j + 1)

AssignSampleNoBreak(cs, positions, m) ==
    IF FirstFit(cs, PosOf(positions, m)) > 0
    THEN JoinAllFrom(cs, positions, m, 1)
    ELSE Append(cs, NewCluster(positions, m))

\* lines 84-101 for the cluster the scan stopped at, or 0
AssignTo(cs, positions, m, j) ==
    IF j > 0
    THEN [cs EXCEPT ![j] = AddToCluster(cs[j], positions, m)]
    ELSE Append(cs, NewCluster(positions, m))

\* one iteration of the loop over the samples
AssignSample(cs, positions, m) ==
    The({ AssignTo(cs, positions, m, j) :
            j \in { FirstFit(cs, PosOf(positions, m)) } })

\* list.sort(key=time_spent, reverse=True) is stable: a cluster goes behind
\* every cluster with at least its time_spent
RECURSIVE InsertByTimeSpent(_, _)
InsertByTimeSpent(sorted, c) ==
    IF sorted = <<>> THEN <<c>>
    ELSE IF FLess(sorted[1].time_spent, c.time_spent) THEN <<c>> \o sorted
    ELSE <<sorted[1]>> \o InsertByTimeSpent(Tail(sorted), c)

\* an insertion that puts a cluster ahead of those with the same time_spent
RECURSIVE InsertAheadOfTies(_, _)
InsertAheadOfTies(sorted, c) ==
    IF sorted = <<>> THEN <<c>>
    ELSE IF FLeq(sorted[1].time_spent, c.time_spent) THEN <<c>> \o sorted
    ELSE <<sorted[1]>> \o InsertAheadOfTies(Tail(sorted), c)

RECURSIVE SortFirstUnstable(_, _)
SortFirstUnstable(cs, n) ==
    IF n = 0 THEN <<>> ELSE InsertAheadOfTies(SortFirstUnstable(cs, n - 1), cs[n])

\* a descending sort that reverses the ties
SortUnstable(cs) == SortFirstUnstable(cs, Len(cs))

RECURSIVE SortFirst(_, _)
SortFirst(cs, n) ==
    IF n = 0 THEN <<>> ELSE InsertByTimeSpent(SortFirst(cs, n - 1), cs[n])

SortByTimeSpent(cs) == SortFirst(cs, Len(cs))

\* the slice one too long
TopClustersOneMore(cs) ==
    SubSeq(cs, 1, IF Len(cs) < top_k + 1 THEN Len(cs) ELSE top_k + 1)

\* clusters[:10]
TopClusters(cs) == SubSeq(cs, 1, IF Len(cs) < top_k THEN Len(cs) ELSE top_k)

\* the dict returned at lines 60-71
AnalysisResult(nd, total, sp, maxd, cs) ==
    [total_distance_traveled   |-> total,
     average_speed             |-> AverageSpeed(sp),
     max_speed                 |-> MaxSpeed(sp),
     max_distance_per_interval |-> maxd,
     movement_clusters         |-> cs,
     exploration_bounds        |->
         [min_bounds       |-> nd.statistics.min_bounds,
          max_bounds       |-> nd.statistics.max_bounds,
          exploration_area |-> calculate_exploration_area(nd.statistics)]]

-----------------------------------------------------------------------------
(* The state machine: main and the functions it calls *)

\* the command lines: the default file or heatmap_data.json, the file
\* export_heatmap_data writes
ArgChoices ==
    { [file |-> "nav.json", export_heatmap |-> FALSE, watch |-> w] :
        w \in BOOLEAN }
    \cup { [file |-> f, export_heatmap |-> TRUE, watch |-> FALSE] :
             f \in {"nav.json", "heatmap_data.json"} }
    \cup { [file |-> "heatmap_data.json", export_heatmap |-> TRUE,
            watch |-> TRUE] }

\* `if nav_data:` is taken: the load did not fail and the object has a key
Truthy(nd) == nd # None /\ DOMAIN nd # {}

Init ==
    /\ file \in Inputs
    /\ args \in ArgChoices
    /\ nav_data = None
    /\ pc = "load"
    /\ watching = FALSE
    /\ i = 0
    /\ total_distance = FZero
    /\ max_distance_per_interval = FZero
    /\ speeds = <<>>
    /\ k = 0
    /\ clusters = <<>>
    /\ analysis = None
    /\ printed = "none"
    /\ last_run = None

locals == <<i, total_distance, max_distance_per_interval, speeds, k, clusters>>

\* main is over, by a return or by an exception nothing catches: it has
\* left the try, and its variables and those of the functions it called are
\* gone
Gone ==
    /\ watching' = FALSE
    /\ nav_data' = None
    /\ analysis' = None
    /\ i' = 0
    /\ total_distance' = FZero
    /\ max_distance_per_interval' = FZero
    /\ speeds' = <<>>
    /\ k' = 0
    /\ clusters' = <<>>

\* main, lines 183-185: load_nav_data returns the content of the file
Load ==
    /\ pc = "load"
    /\ nav_data' = file
    /\ pc' = "analyze"
    /\ UNCHANGED <<file, args, watching, locals, analysis, printed, last_run>>

\* main, lines 183-185: load_nav_data returns None (no file, or not JSON)
LoadFail ==
    /\ pc = "load"
    /\ nav_data' = None
    /\ pc' = "done"
    /\ UNCHANGED <<file, args, watching, locals, analysis, printed, last_run>>

\* analyze_movement_patterns, lines 32-39
AnalyzeStart ==
    /\ pc = "analyze"
    /\ IF InsufficientData(Positions(nav_data))
       THEN /\ analysis' = ErrorResult
            /\ pc' = "report"
            /\ UNCHANGED locals
       ELSE /\ total_distance' = FZero
            /\ max_distance_per_interval' = FZero
            /\ speeds' = <<>>
            /\ i' = 2
            /\ pc' = "movement"
            /\ UNCHANGED <<k, clusters, analysis>>
    /\ UNCHANGED <<file, args, nav_data, watching, printed, last_run>>

\* analyze_movement_patterns, lines 41-52: one iteration; line 42 raises a
\* TypeError on a position that is a list
MovementStep ==
    /\ pc = "movement"
    /\ i <= Len(Positions(nav_data))
    /\ IF HasSamples(nav_data)
       THEN /\ \E acc \in { MovementIteration(Positions(nav_data), i,
                               [total_distance |-> total_distance,
                                max_distance_per_interval |->
                                    max_distance_per_interval,
                                speeds |-> speeds]) } :
                  /\ total_distance' = acc.total_distance
                  /\ max_distance_per_interval' = acc.max_distance_per_interval
                  /\ speeds' = acc.speeds
            /\ i' = i + 1
            /\ UNCHANGED <<nav_data, pc, watching, k, clusters, analysis>>
       ELSE /\ pc' = "raised"
            /\ Gone
    /\ UNCHANGED <<file, args, printed, last_run>>

\* an accumulator that outlives the call
StaleClusters == clusters

\* the fresh accumulator of find_position_clusters, line 75
FreshClusters == <<>>

\* the loop is over: line 58 calls find_position_clusters, line 75
FindClustersStart ==
    /\ pc = "movement"
    /\ i > Len(Positions(nav_data))
    /\ clusters' = FreshClusters
    /\ k' = 1
    /\ pc' = "cluster"
    /\ UNCHANGED <<file, args, nav_data, watching, i, total_distance,
                   max_distance_per_interval, speeds, analysis, printed,
                   last_run>>

\* find_position_clusters, lines 77-101: one sample
ClusterStep ==
    /\ pc = "cluster"
    /\ k <= Len(Positions(nav_data))
    /\ clusters' = AssignSample(clusters, Positions(nav_data), k)
    /\ k' = k + 1
    /\ UNCHANGED <<file, args, nav_data, pc, watching, i, total_distance,
                   max_distance_per_interval, speeds, analysis, printed,
                   last_run>>

\* find_position_clusters, lines 103-105, and the return at lines 60-71
ClusterDone ==
    /\ pc = "cluster"
    /\ k > Len(Positions(nav_data))
    /\ clusters' = SortByTimeSpent(clusters)
    /\ analysis' = AnalysisResult(nav_data, total_distance, speeds,
                                  max_distance_per_interval,
                                  TopClusters(clusters'))
    /\ pc' = "report"
    /\ UNCHANGED <<file, args, nav_data, watching, i, total_distance,
                   max_distance_per_interval, speeds, k, printed, last_run>>

\* print_analysis_report, lines 117-158: lines 124-125 raise a KeyError on a
\* file without the header of a session; else the branch of line 134 is
\* printed, and main goes on to line 190 or the watch loop to its next poll
Report ==
    /\ pc = "report"
    /\ IF HasHeader(nav_data)
       THEN /\ printed' = IF "error" \notin DOMAIN analysis THEN "analysis"
                          ELSE "error"
            /\ last_run' = [input |-> nav_data, output |-> analysis]
            /\ pc' = IF watching THEN "poll" ELSE "export"
            /\ UNCHANGED <<nav_data, watching, locals, analysis>>
       ELSE /\ pc' = "raised"
            /\ Gone
            /\ UNCHANGED <<printed, last_run>>
    /\ UNCHANGED <<file, args>>

\* export_heatmap_data writes heatmap_data.json (its default filename):
\* the file analysed, if --file names it
OverwritesInput == args.file = "heatmap_data.json"

\* the file right after open(filename, 'w'): 0 bytes
EmptyFile == [text |-> ""]

\* the file while json.dump writes the dict d: a beginning of the text, which
\* lacks at least the closing brace
PartialDump(d) == [beginning_of |-> d]

\* main, lines 190-191, and export_heatmap_data, lines 162-168: with
\* --export-heatmap the dict to dump is built; nothing is written yet
ExportHeatmap ==
    /\ pc = "export"
    /\ pc' = IF args.export_heatmap THEN "export_open" ELSE "watch"
    /\ UNCHANGED <<file, args, nav_data, watching, locals, analysis, printed,
                   last_run>>

\* export_heatmap_data, line 170: open(filename, 'w') empties the file
ExportOpen ==
    /\ pc = "export_open"
    /\ file' = IF OverwritesInput THEN EmptyFile ELSE file
    /\ pc' = "export_dump"
    /\ UNCHANGED <<args, nav_data, watching, locals, analysis, printed,
                   last_run>>

\* export_heatmap_data, line 171: json.dump has written the first pieces of
\* the text
ExportDump ==
    /\ pc = "export_dump"
    /\ file' = IF OverwritesInput THEN PartialDump(HeatmapData(nav_data))
               ELSE file
    /\ pc' = "export_close"
    /\ UNCHANGED <<args, nav_data, watching, locals, analysis, printed,
                   last_run>>

\* export_heatmap_data, lines 171-173: json.dump has written the last piece
\* and the file is closed
ExportClose ==
    /\ pc = "export_close"
    /\ file' = IF OverwritesInput THEN HeatmapData(nav_data) ELSE file
    /\ pc' = "watch"
    /\ UNCHANGED <<args, nav_data, watching, locals, analysis, printed,
                   last_run>>

\* main, lines 193-197: with --watch the try of the watch loop is entered;
\* without it main returns
WatchStart ==
    /\ pc = "watch"
    /\ IF args.watch
       THEN /\ watching' = TRUE
            /\ pc' = "poll"
            /\ UNCHANGED <<nav_data, locals, analysis>>
       ELSE /\ pc' = "done"
            /\ Gone
    /\ UNCHANGED <<file, args, printed, last_run>>

\* watch loop, lines 201-208: the file has a newer mtime (as it has on the
\* first poll, last_modified being 0) and loads; an object without any key
\* is falsy and is not analysed
WatchReload ==
    /\ pc = "poll"
    /\ \E f \in {file} \cup Grown(file) \cup {EmptyDict} :
          /\ file' = f
          /\ nav_data' = f
          /\ pc' = IF Truthy(f) THEN "analyze" ELSE "poll"
    /\ UNCHANGED <<args, watching, locals, analysis, printed, last_run>>

\* watch loop, lines 205-206: the file has a newer mtime and does not load
WatchLoadFail ==
    /\ pc = "poll"
    /\ nav_data' = None
    /\ UNCHANGED <<file, args, pc, watching, locals, analysis, printed,
                   last_run>>

\* watch loop, lines 212-213: KeyboardInterrupt anywhere in the try, between
\* two polls or in the middle of a load, an analysis or a report; main returns
WatchStop ==
    /\ watching
    /\ pc \in {"poll", "analyze", "movement", "cluster", "report"}
    /\ pc' = "done"
    /\ Gone
    /\ UNCHANGED <<file, args, printed, last_run>>

\* main, lines 183-195: KeyboardInterrupt before the try is entered; nothing
\* catches it and it ends main with a traceback; in export_heatmap_data the
\* file stays as far as it was written
Interrupt ==
    /\ ~watching
    /\ pc \in {"load", "analyze", "movement", "cluster", "report", "export",
               "export_open", "export_dump", "export_close", "watch"}
    /\ pc' = "interrupted"
    /\ Gone
    /\ UNCHANGED <<file, args, printed, last_run>>

Next ==
    \/ Load
    \/ LoadFail
    \/ AnalyzeStart
    \/ MovementStep
    \/ FindClustersStart
    \/ ClusterStep
    \/ ClusterDone
    \/ Report
    \/ ExportHeatmap
    \/ ExportOpen
    \/ ExportDump
    \/ ExportClose
    \/ WatchStart
    \/ WatchReload
    \/ WatchLoadFail
    \/ WatchStop
    \/ Interrupt

Spec == Init /\ [][Next]_vars

-----------------------------------------------------------------------------
(* Properties of the clustering pass *)

\* the clustering loop is running; samples 1..k-1 have been processed
InPass == pc = "cluster"

\* an analysis of two samples or more has just returned
Analyzed == pc = "report" /\ "error" \notin DOMAIN analysis

\* number of samples the clusters held in `clusters` account for
Processed == IF InPass THEN k - 1 ELSE Len(Positions(nav_data))

RECURSIVE CountSum(_)
CountSum(cs) == IF cs = <<>> THEN 0 ELSE cs[1].count + CountSum(Tail(cs))

\* the places (cluster, rank) of the member lists that hold sample m
PlacesOf(cs, m) ==
    { pl \in UNION { { <<j, q>> : q \in 1..Len(cs[j].positions) } :
                      j \in 1..Len(cs) } :
        cs[pl[1]].positions[pl[2]] = m }

\* C1: after any prefix of the input has been processed, every processed
\* sample is a member of exactly one cluster (once), no other sample is a
\* member, and the counts of all clusters (before truncation) add up to the
\* number of samples processed.
C1_EverySampleInOneCluster ==
    (InPass \/ Analyzed) =>
        /\ \A m \in 1..Processed : Cardinality(PlacesOf(clusters, m)) = 1
        /\ \A j \in 1..Len(clusters) :
              \A q \in 1..Len(clusters[j].positions) :
                  clusters[j].positions[q] \in 1..Processed
        /\ CountSum(clusters) = Processed

C1_Witness ==
    /\ InPass
    /\ Processed = 3
    /\ Len(clusters) = 2
    /\ \E j \in 1..Len(clusters) : clusters[j].count = 2

Sign(n) == IF n < 0 THEN -1 ELSE IF n > 0 THEN 1 ELSE 0

\* Arithmetic without rounding, to state what the floats are compared with:
\* <<s, m, e>> is the number s * m * 2^e, for any natural m.  The number an
\* int or a float stands for:
ExactOf(v) == IF IsInt(v) THEN <<Sign(v.int), BN(Abs(v.int)), 0>> ELSE v.float

\* sx * ax * 2^e + sy * ay * 2^e, c comparing ax to ay
ExactAligned(sx, ax, sy, ay, e, c) ==
    IF sx = sy THEN <<sx, BAdd(ax, ay), e>>
    ELSE IF c = 0 THEN <<0, <<>>, 0>>
    ELSE IF c > 0 THEN <<sx, BSub(ax, ay), e>>
    ELSE <<sy, BSub(ay, ax), e>>

\* x + y
ExactPlus(x, y) ==
    IF x[1] = 0 THEN y
    ELSE IF y[1] = 0 THEN x
    ELSE ExactAligned(x[1], BShl(x[2], x[3] - Low(x[3], y[3])),
                      y[1], BShl(y[2], y[3] - Low(x[3], y[3])),
                      Low(x[3], y[3]),
                      BCmp(BShl(x[2], x[3] - Low(x[3], y[3])),
                           BShl(y[2], y[3] - Low(x[3], y[3]))))

\* x - y
ExactMinus(x, y) == ExactPlus(x, <<-y[1], y[2], y[3]>>)

\* x * n, for an int n > 0
ExactTimes(x, n) ==
    IF x[1] = 0 THEN x ELSE <<x[1], BMul(x[2], BN(n)), x[3]>>

\* |x|
ExactAbs(x) == <<IF x[1] = 0 THEN 0 ELSE 1, x[2], x[3]>>

\* x <= y
ExactLeq(x, y) == ExactMinus(x, y)[1] <= 0

\* the sum of coordinate c of the first n members, without rounding
RECURSIVE ExactSum(_, _, _, _)
ExactSum(positions, members, c, n) ==
    IF n = 0 THEN <<0, <<>>, 0>>
    ELSE ExactPlus(ExactSum(positions, members, c, n - 1),
                   ExactOf(PosOf(positions, members[n])[c]))

\* v is total / n exactly: v * n = total
IsExactMean(v, total, n) ==
    ExactMinus(ExactTimes(ExactOf(v), n), total)[1] = 0

\* the double x is a double nearest to total / n: the error |x * n - total|
\* is at most n times half a unit of the last of the 53 bits of x
NearestToMean(x, total, n) ==
    IF x[1] = 0 THEN total[1] = 0
    ELSE ExactLeq(ExactAbs(ExactMinus(ExactTimes(x, n), total)),
                  <<1, BN(n), x[3] + BitLen(x[2]) - Precision - 1>>)

\* C2 as stated: at every point of the pass and when it has returned, the
\* center of every cluster is the exact coordinate-wise mean of its members:
\* center[c] * len(members) = sum of the members' coordinate c.
C2_CenterIsExactMean ==
    (InPass \/ Analyzed) =>
        \A j \in 1..Len(clusters) : \A c \in 1..3 :
            IsExactMean(clusters[j].center[c],
                        ExactSum(Positions(nav_data), clusters[j].positions,
                                 c, Len(clusters[j].positions)),
                        Len(clusters[j].positions))

\* C2, amended: at every point of the pass and when it has returned, the
\* center of a cluster of one member is that member's position, number for
\* number, and the center of a cluster of n > 1 members is, coordinate by
\* coordinate, the float sum(coordinate of the members) / n recomputed from
\* all the current members: sum() adds them in member order, without
\* rounding while they are ints and rounding each addition once one is a
\* float, and the division rounds once more.  When the coordinates are ints
\* the center is the double nearest to the mean, at most half a unit of the
\* last place away from it; nothing more is claimed of float coordinates.
C2_CenterIsFloatMean ==
    (InPass \/ Analyzed) =>
        \A j \in 1..Len(clusters) : \A c \in 1..3 :
            LET ps      == Positions(nav_data)
                members == clusters[j].positions
                n       == Len(members)
                total   == CoordSum(ps, members, c, n)
                center  == clusters[j].center[c]
            IN  /\ n >= 1
                /\ n = 1 => center = PosOf(ps, members[1])[c]
                /\ n > 1 => /\ center = TrueDiv(total, PyInt(n))
                            /\ IsInt(total) =>
                                  NearestToMean(center.float,
                                                ExactSum(ps, members, c, n), n)

\* a cluster of three members whose mean on the y axis, 8/3, no double
\* holds, and whose center on the x axis, 0.20000000000000004 for the
\* members 0.1, 0.2 and 0.3, is not the double nearest to their mean
C2_Witness ==
    /\ InPass
    /\ \E j \in 1..Len(clusters) :
          LET ps      == Positions(nav_data)
              members == clusters[j].positions
          IN  /\ clusters[j].count = 3
              /\ CoordSum(ps, members, 2, 3) = PyInt(8)
              /\ clusters[j].center[2] = TrueDiv(PyInt(8), PyInt(3))
              /\ ~IsExactMean(clusters[j].center[2],
                              ExactSum(ps, members, 2, 3), 3)
              /\ IsFloat(CoordSum(ps, members, 1, 3))
              /\ ~NearestToMean(clusters[j].center[1].float,
                                ExactSum(ps, members, 1, 3), 3)

\* the clusters whose center is at distance <= 5.0 of pos
Qualifying(cs, pos) ==
    { j \in 1..Len(cs) : FLeq(calculate_distance(pos, cs[j].center), F(5)) }

\* C3: each sample goes to the earliest-created cluster whose center, as it
\* stands when the sample is processed, is at distance <= 5.0 (the distance
\* calculate_distance returns); the other clusters are left alone; a new
\* cluster with center = p, members = [p], count = 1, time_spent = 5.0 is
\* appended iff no cluster qualifies.
C3_FirstFitInCreationOrder ==
    [][ (pc = "cluster" /\ k' = k + 1) =>
          LET ps == Positions(nav_data)
              p  == PosOf(ps, k)
              Q  == Qualifying(clusters, p)
          IN  IF Q = {}
              THEN clusters' = Append(clusters,
                                  [center |-> p, positions |-> <<k>>,
                                   count |-> 1, time_spent |-> F(5)])
              ELSE LET first == CHOOSE j \in Q : \A q \in Q : j <= q
                   IN  /\ Len(clusters') = Len(clusters)
                       /\ \A q \in 1..Len(clusters) :
                             q # first => clusters'[q] = clusters[q]
                       /\ clusters'[first].positions =
                             Append(clusters[first].positions, k)
      ]_vars

\* the center of a cluster before its last member joined it
CenterBefore(ps, members) ==
    IF Len(members) = 2 THEN PosOf(ps, members[1])
    ELSE MeanOf(ps, SubSeq(members, 1, Len(members) - 1))

\* the sample just processed joined cluster a although the later cluster b
\* was strictly nearer when it was processed
C3_Witness ==
    /\ InPass
    /\ k > 1
    /\ \E a \in 1..Len(clusters) : \E b \in (a + 1)..Len(clusters) :
          LET ps      == Positions(nav_data)
              p       == PosOf(ps, k - 1)
              members == clusters[a].positions
          IN  /\ Len(members) > 1
              /\ members[Len(members)] = k - 1
              /\ FLess(calculate_distance(p, clusters[b].center),
                       calculate_distance(p, CenterBefore(ps, members)))

\* C10: for every cluster, during the pass and in the returned list, count is
\* the number of members and time_spent is count * 5.0; so the returned list,
\* ranked by time_spent, is ranked by count as well.
C10_CountAndTimeSpent ==
    /\ (InPass \/ Analyzed) =>
          \A j \in 1..Len(clusters) :
              /\ clusters[j].count = Len(clusters[j].positions)
              /\ clusters[j].time_spent = F(5 * clusters[j].count)
    /\ Analyzed =>
          LET res == analysis.movement_clusters
          IN  /\ \A j \in 1..Len(res) :
                    /\ res[j].count = Len(res[j].positions)
                    /\ res[j].time_spent = F(5 * res[j].count)
              /\ \A a \in 1..Len(res) : \A b \in a..Len(res) :
                    res[a].count >= res[b].count

C10_Witness ==
    /\ Analyzed
    /\ Len(analysis.movement_clusters) = 2
    /\ analysis.movement_clusters[1].count = 2
    /\ analysis.movement_clusters[2].time_spent = F(5)

-----------------------------------------------------------------------------
(* Properties of the returned cluster list *)

\* clusters are created in the order of their first member (their seed)
Seed(cl) == cl.positions[1]

\* C4: the returned list is ordered by time_spent descending, and clusters
\* with equal time_spent are in the order in which they were created.
C4_SortedStable ==
    Analyzed =>
        LET res == analysis.movement_clusters
        IN  \A a \in 1..Len(res) : \A b \in (a + 1)..Len(res) :
                /\ FLeq(res[b].time_spent, res[a].time_spent)
                /\ res[a].time_spent = res[b].time_spent
                      => Seed(res[a]) < Seed(res[b])

\* the sort moved a later cluster ahead, and the list has a tie
C4_Witness ==
    /\ Analyzed
    /\ LET res == analysis.movement_clusters
       IN  /\ \E a \in 1..Len(res) : \E b \in (a + 1)..Len(res) :
                 Seed(res[a]) > Seed(res[b])
           /\ \E a \in 1..Len(res) : \E b \in (a + 1)..Len(res) :
                 res[a].time_spent = res[b].time_spent

Range(seq) == { seq[j] : j \in 1..Len(seq) }

\* C5: when find_position_clusters returns, the result has min(10, number of
\* clusters formed) clusters, they are the first entries of the sorted list
\* of all the clusters formed, and no cluster left out has a larger
\* time_spent than a returned one.
C5_TopTen ==
    [][ (pc = "cluster" /\ pc' = "report") =>
          LET formed == clusters
              sorted == clusters'
              res    == analysis'.movement_clusters
          IN  /\ Len(res) = (IF Len(formed) < 10 THEN Len(formed) ELSE 10)
              /\ Len(sorted) = Len(formed)
              /\ Range(sorted) = Range(formed)
              /\ res = SubSeq(sorted, 1, Len(res))
              /\ \A o \in Range(formed) \ Range(res) : \A r \in Range(res) :
                    FLeq(o.time_spent, r.time_spent)
      ]_vars

\* eleven clusters were formed, ten are returned, and the last one created
\* is the first of them
C5_Witness ==
    /\ Analyzed
    /\ Len(clusters) = 11
    /\ Len(analysis.movement_clusters) = 10
    /\ Seed(analysis.movement_clusters[1]) = 11

-----------------------------------------------------------------------------
(* Properties of the movement statistics *)

IntervalDistance(ps, j) ==
    calculate_distance(ps[j - 1].position, ps[j].position)

IntervalTime(ps, j) == Minus(ps[j].session_time, ps[j - 1].session_time)

IntervalSpeed(ps, j) ==
    FDiv(IntervalDistance(ps, j), ToFloat(IntervalTime(ps, j)))

\* the intervals that have a speed sample
Timed(ps) == { j \in 2..Len(ps) : IsPositive(IntervalTime(ps, j)) }

RECURSIVE DistanceUpTo(_, _)
DistanceUpTo(ps, n) ==
    IF n < 2 THEN F(0) ELSE FAdd(DistanceUpTo(ps, n - 1), IntervalDistance(ps, n))

RECURSIVE SpeedSumUpTo(_, _)
SpeedSumUpTo(ps, n) ==
    IF n < 2 THEN F(0)
    ELSE IF n \in Timed(ps)
         THEN FAdd(SpeedSumUpTo(ps, n - 1), IntervalSpeed(ps, n))
         ELSE SpeedSumUpTo(ps, n - 1)

\* m is the largest of the values f[j], j in S
IsMaxOf(m, S, f) ==
    /\ \E j \in S : f[j] = m
    /\ \A j \in S : FLeq(f[j], m)

\* C6: every consecutive pair adds its distance to total_distance_traveled
\* and counts for max_distance_per_interval whatever its time difference; a
\* speed d/dt is recorded only for the pairs with dt > 0; average_speed and
\* max_speed are the mean and the maximum of the recorded speeds, and both
\* are the int 0 when no pair has dt > 0.  Distances are those
\* calculate_distance returns; sums and quotients are those of float
\* arithmetic, the sums taken in the order of the samples.
C6_MovementStatistics ==
    Analyzed =>
        LET ps == Positions(nav_data)
            T  == Timed(ps)
        IN  /\ analysis.total_distance_traveled = DistanceUpTo(ps, Len(ps))
            /\ IsMaxOf(analysis.max_distance_per_interval, 2..Len(ps),
                       [j \in 2..Len(ps) |-> IntervalDistance(ps, j)])
            /\ Len(speeds) = Cardinality(T)
            /\ IF T = {}
               THEN /\ analysis.average_speed = PyInt(0)
                    /\ analysis.max_speed = PyInt(0)
               ELSE /\ analysis.average_speed =
                         PyFloat(FDiv(SpeedSumUpTo(ps, Len(ps)),
                                      F(Cardinality(T))))
                    /\ IsFloat(analysis.max_speed)
                    /\ IsMaxOf(analysis.max_speed.float, T,
                               [j \in T |-> IntervalSpeed(ps, j)])

\* an interval going back in time adds its distance, and is the longest one;
\* another interval has a speed
C6_Witness ==
    /\ Analyzed
    /\ LET ps == Positions(nav_data)
       IN  /\ \E j \in 2..Len(ps) :
                 /\ ~IsPositive(IntervalTime(ps, j))
                 /\ IntervalTime(ps, j) # PyInt(0)
                 /\ IntervalDistance(ps, j) = analysis.max_distance_per_interval
                 /\ FLess(IntervalDistance(ps, j),
                            analysis.total_distance_traveled)
           /\ Timed(ps) # {}
           /\ FLess(F(0), analysis.max_speed.float)

-----------------------------------------------------------------------------
(* Properties of the insufficient-data result *)

\* C7: with fewer than 2 samples (0, 1, or no "positions" key) the analysis
\* returns the error marker as an ordinary value holding no statistics, and
\* the report prints it; with 2 samples or more the result never carries
\* the error marker.
C7_InsufficientDataMarker ==
    /\ pc = "report" =>
          IF Len(Positions(nav_data)) < 2
          THEN /\ DOMAIN analysis = {"error"}
               /\ analysis.error = "Not enough position data for analysis"
          ELSE "error" \notin DOMAIN analysis
    /\ (pc \in {"export", "export_open", "export_dump", "export_close",
                "watch", "poll", "done"} /\ last_run # None) =>
          (printed = "error" <=> Len(Positions(last_run.input)) < 2)

C7_Witness ==
    /\ pc = "poll"
    /\ nav_data # None
    /\ Len(Positions(nav_data)) = 1
    /\ analysis = [error |-> "Not enough position data for analysis"]
    /\ printed = "error"

\* C8 as stated: with fewer than 2 samples the analysis still yields the
\* cluster list (one cluster per sample there is) and the exploration
\* bounds, next to the error marker.
C8_ClustersAndBoundsNotGated ==
    (pc = "report" /\ Len(Positions(nav_data)) < 2) =>
        /\ "error" \in DOMAIN analysis
        /\ "movement_clusters" \in DOMAIN analysis
        /\ "exploration_bounds" \in DOMAIN analysis
        /\ Len(analysis.movement_clusters) = Len(Positions(nav_data))

\* C8, amended: the insufficient-data condition gates the clusters and the
\* bounds too.  The result holds a cluster list and exploration bounds
\* exactly when 2 samples or more were supplied (the bounds then are those
\* of the input statistics, with the planar area); with fewer, the result
\* is the error marker alone.
C8_ClustersAndBoundsGated ==
    pc = "report" =>
        LET enough == Len(Positions(nav_data)) >= 2
        IN  /\ "movement_clusters" \in DOMAIN analysis <=> enough
            /\ "exploration_bounds" \in DOMAIN analysis <=> enough
            /\ enough =>
                  /\ analysis.exploration_bounds.min_bounds =
                        nav_data.statistics.min_bounds
                  /\ analysis.exploration_bounds.max_bounds =
                        nav_data.statistics.max_bounds
                  /\ analysis.exploration_bounds.exploration_area =
                        Times(Minus(nav_data.statistics.max_bounds[1],
                                    nav_data.statistics.min_bounds[1]),
                              Minus(nav_data.statistics.max_bounds[3],
                                    nav_data.statistics.min_bounds[3]))
            /\ ~enough => DOMAIN analysis = {"error"}

C8_Witness ==
    /\ pc = "report"
    /\ "positions" \in DOMAIN nav_data
    /\ nav_data.positions = <<>>
    /\ DOMAIN analysis = {"error"}

-----------------------------------------------------------------------------
(* Repeated analysis *)

\* C9: an analysis of the same input as the previous one returns the same
\* output, whatever the previous call left behind, and a run leaves the
\* loaded input as it was read from the file.
C9_SameInputSameOutput ==
    pc = "report" =>
        /\ nav_data = file
        /\ (last_run # None /\ last_run.input = nav_data)
              => analysis = last_run.output

\* the second analysis of an input that forms clusters of several members
C9_Witness ==
    /\ Analyzed
    /\ last_run # None
    /\ last_run.input = nav_data
    /\ printed = "analysis"
    /\ Len(analysis.movement_clusters) = 2
    /\ analysis.movement_clusters[1].count = 2

====
